---- MODULE Spec2Model ----
(***************************************************************************)
(* The state-provisioning cache engine of raiko: the file-only provider    *)
(* (FileProvider), the hybrid provider (CachedRpcProvider) and the cache   *)
(* file they load and save.                                                *)
(*                                                                         *)
(*   src/lib/src/host/provider/file_provider.rs                            *)
(*   src/lib/src/host/provider/cached_rpc_provider.rs                      *)
(*   src/lib/src/host/provider/mod.rs                                      *)
(*                                                                         *)
(* The live source (RpcProvider) is an external collaborator: each call    *)
(* of it either fails or answers with a record of the queried key whose    *)
(* payload is not determined by the model.                                 *)
(***************************************************************************)
EXTENDS Integers, Sequences, FiniteSets, TLC

(* ------------------------------ bounds --------------------------------- *)

\* Operations that write (a lookup that fills the cache, an insert, a save
\* that calls File::create) made over the whole run; lookups that hit or
\* fail and saves of a clean store are not limited.
MaxWrites == 2

\* Enclave keys generated over the whole run: a run of sgx_setup starts only
\* while another key can still be generated.
MaxKeys == 2

\* Whitespace characters before and after a string given to from_str.
MaxPad == 2

\* Layers merged into one ProofRequestOpt.
MaxLayers == 2

\* Two query keys (block numbers, block ids; a key stands for one value of
\* the whole derived-Eq key struct), one of them of two decimal digits.
Keys == {1, 12}

\* What the live source may answer for one key at different times.
Payloads == {"a", "b"}

\* Cache file paths.
Paths == {"p1", "p2"}

(* ------------------------------ data ----------------------------------- *)

\* The HashMap fields of FileProvider.
HashKinds ==
    {"full_blocks", "proofs", "transaction_count", "balance", "code",
     "storage", "blobs"}

\* The keyed mappings: the HashMaps and the BTreeMap partial_blocks.
MapKinds == HashKinds \cup {"partial_blocks"}

\* One kind per query operation of the Provider trait.
Kinds == MapKinds \cup {"propose"}

\* A response: the record of key `of` (a block carries its number, a propose
\* event its block id) with a payload.
Vals == [of : Keys, data : Payloads]

\* FileProvider::empty: every mapping empty, no propose record.
EmptyStore ==
    [full_blocks |-> <<>>, partial_blocks |-> <<>>, proofs |-> <<>>,
     transaction_count |-> <<>>, balance |-> <<>>, code |-> <<>>,
     storage |-> <<>>, propose |-> <<>>, blobs |-> <<>>]

Ok(v) == [tag |-> "Ok", out |-> <<v>>]

Err(e) == [tag |-> e, out |-> <<>>]

(* ----------------------- FileProvider: lookups -------------------------- *)

\* HashMap::get / BTreeMap::get followed by the match of every get_*.
MapGet(m, query) ==
    IF query \in DOMAIN m THEN Ok(m[query]) ELSE Err("NoData")

get_full_block(store, query) == MapGet(store.full_blocks, query)

get_partial_block(store, query) == MapGet(store.partial_blocks, query)

get_proof(store, query) == MapGet(store.proofs, query)

get_transaction_count(store, query) == MapGet(store.transaction_count, query)

get_balance(store, query) == MapGet(store.balance, query)

get_code(store, query) == MapGet(store.code, query)

get_storage(store, query) == MapGet(store.storage, query)

\* The query is not compared with anything: the single record answers it.
get_propose(store, query) ==
    IF store.propose # <<>> THEN Ok(store.propose[1]) ELSE Err("NoData")

get_blob_data(store, block_id) == MapGet(store.blobs, block_id)

\* The query operation of a kind, on the cache store.
FileGet(store, kind, query) ==
    CASE kind = "full_blocks" -> get_full_block(store, query)
      [] kind = "partial_blocks" -> get_partial_block(store, query)
      [] kind = "proofs" -> get_proof(store, query)
      [] kind = "transaction_count" -> get_transaction_count(store, query)
      [] kind = "balance" -> get_balance(store, query)
      [] kind = "code" -> get_code(store, query)
      [] kind = "storage" -> get_storage(store, query)
      [] kind = "propose" -> get_propose(store, query)
      [] kind = "blobs" -> get_blob_data(store, query)

(* ----------------------- FileProvider: inserts -------------------------- *)

\* Variant of MapInsert for testing VisibleAndStable: the insert evicts every
\* other entry of the mapping.
MapInsertEvict(m, query, val) == (query :> val)

\* HashMap::insert / BTreeMap::insert: the entry of `query` is replaced.
MapInsert(m, query, val) == (query :> val) @@ m

insert_full_block(store, query, val) ==
    [store EXCEPT !.full_blocks = MapInsert(@, query, val)]

insert_partial_block(store, query, val) ==
    [store EXCEPT !.partial_blocks = MapInsert(@, query, val)]

insert_proof(store, query, val) ==
    [store EXCEPT !.proofs = MapInsert(@, query, val)]

insert_transaction_count(store, query, val) ==
    [store EXCEPT !.transaction_count = MapInsert(@, query, val)]

insert_balance(store, query, val) ==
    [store EXCEPT !.balance = MapInsert(@, query, val)]

insert_code(store, query, val) ==
    [store EXCEPT !.code = MapInsert(@, query, val)]

insert_storage(store, query, val) ==
    [store EXCEPT !.storage = MapInsert(@, query, val)]

\* The query is dropped: the one record is overwritten.
insert_propose(store, query, val) == [store EXCEPT !.propose = <<val>>]

insert_blob(store, block_id, val) ==
    [store EXCEPT !.blobs = MapInsert(@, block_id, val)]

\* The insert operation of a kind, on the cache store.
FileInsert(store, kind, query, val) ==
    CASE kind = "full_blocks" -> insert_full_block(store, query, val)
      [] kind = "partial_blocks" -> insert_partial_block(store, query, val)
      [] kind = "proofs" -> insert_proof(store, query, val)
      [] kind = "transaction_count" ->
            insert_transaction_count(store, query, val)
      [] kind = "balance" -> insert_balance(store, query, val)
      [] kind = "code" -> insert_code(store, query, val)
      [] kind = "storage" -> insert_storage(store, query, val)
      [] kind = "propose" -> insert_propose(store, query, val)
      [] kind = "blobs" -> insert_blob(store, query, val)

\* What every insert_* assigns to self.dirty.
DirtyAfterInsert == TRUE

(* ------------------------- the cache document --------------------------- *)

Max(S) == CHOOSE x \in S : \A y \in S : y <= x

\* The orders in which the entries of a set of keys can be enumerated.
Perms(S) ==
    {p \in [1..Cardinality(S) -> S] :
        \A i, j \in 1..Cardinality(S) : p[i] = p[j] => i = j}

Min(S) == CHOOSE x \in S : \A y \in S : x <= y

\* BTreeMap iteration: ascending key order.
RECURSIVE SortedKeys(_)
SortedKeys(S) ==
    IF S = {} THEN <<>> ELSE <<Min(S)>> \o SortedKeys(S \ {Min(S)})

\* serde_as Vec<(_, _)>: the map written as a list of (key, value) pairs, in
\* the map's iteration order `p`.
AssocList(m, p) == [i \in DOMAIN p |-> <<p[i], m[p[i]]>>]

\* Variant of FromAssoc for testing RoundTrip: only the first pair of the
\* list is read.
FromAssocFirst(s) ==
    IF s = <<>> THEN <<>> ELSE (s[1][1] :> s[1][2])

\* Reading the list back: the pairs are inserted one after the other, so a
\* later pair of the same key replaces an earlier one.
FromAssoc(s) ==
    [k \in {s[i][1] : i \in DOMAIN s} |->
        s[Max({i \in DOMAIN s : s[i][1] = k})][2]]

\* u64 to its decimal digits and back (serde_json writes the integer keys of
\* a map as strings and parses them on reading).
RECURSIVE U64ToStr(_)
U64ToStr(n) ==
    IF n < 10 THEN <<n>> ELSE Append(U64ToStr(n \div 10), n % 10)

RECURSIVE StrToU64(_)
StrToU64(s) ==
    IF Len(s) = 0 THEN 0
    ELSE 10 * StrToU64(SubSeq(s, 1, Len(s) - 1)) + s[Len(s)]

\* blobs has no serde_as: a JSON object, from the key's string to the value.
JsonObject(m) ==
    [s \in {U64ToStr(k) : k \in DOMAIN m} |->
        m[CHOOSE k \in DOMAIN m : U64ToStr(k) = s]]

FromJsonObject(o) ==
    [k \in {StrToU64(s) : s \in DOMAIN o} |->
        o[CHOOSE s \in DOMAIN o : StrToU64(s) = k]]

\* The iteration orders a HashMap of each association-list field may have.
Orders(store) ==
    [full_blocks : Perms(DOMAIN store.full_blocks),
     proofs : Perms(DOMAIN store.proofs),
     transaction_count : Perms(DOMAIN store.transaction_count),
     balance : Perms(DOMAIN store.balance),
     code : Perms(DOMAIN store.code),
     storage : Perms(DOMAIN store.storage)]

\* serde_json::to_vec(self): file_path and dirty are skipped.
Serialize(store, ord) ==
    [full_blocks |-> AssocList(store.full_blocks, ord.full_blocks),
     partial_blocks |->
        AssocList(store.partial_blocks, SortedKeys(DOMAIN store.partial_blocks)),
     proofs |-> AssocList(store.proofs, ord.proofs),
     transaction_count |->
        AssocList(store.transaction_count, ord.transaction_count),
     balance |-> AssocList(store.balance, ord.balance),
     code |-> AssocList(store.code, ord.code),
     storage |-> AssocList(store.storage, ord.storage),
     propose |-> store.propose,
     blobs |-> JsonObject(store.blobs)]

\* serde_json::from_slice into the fields of FileProvider.
Deserialize(doc) ==
    [full_blocks |-> FromAssoc(doc.full_blocks),
     partial_blocks |-> FromAssoc(doc.partial_blocks),
     proofs |-> FromAssoc(doc.proofs),
     transaction_count |-> FromAssoc(doc.transaction_count),
     balance |-> FromAssoc(doc.balance),
     code |-> FromAssoc(doc.code),
     storage |-> FromAssoc(doc.storage),
     propose |-> doc.propose,
     blobs |-> FromJsonObject(doc.blobs)]

\* A path of the file system: no file, a file that is not a readable cache
\* document (not gzip, truncated, not the JSON of a FileProvider), or a
\* cache document.
NoFile == [st |-> "absent", doc |-> EmptyStore]

CorruptFile == [st |-> "corrupt", doc |-> EmptyStore]

DocFile(doc) == [st |-> "doc", doc |-> doc]

\* FileProvider::read_from_file: File::open, gunzip and from_slice each
\* return the error with `?`; file_path is set and dirty cleared on success.
read_from_file(file, path) ==
    IF file.st = "doc"
    THEN [tag |-> "Ok", store |-> Deserialize(file.doc), file_path |-> path,
          dirty |-> FALSE]
    ELSE [tag |-> "ReadErr", store |-> EmptyStore, file_path |-> path,
          dirty |-> FALSE]

\* FileProvider::empty.
empty(path) ==
    [tag |-> "Ok", store |-> EmptyStore, file_path |-> path, dirty |-> FALSE]

\* What the storage does to a write: File::create fails, or the file is
\* created (truncated) and then the encoding or the write fails, or all of it
\* succeeds.
IoOutcomes == {"Ok", "CreateErr", "WriteErr"}

\* Variant of save_to_file for testing CleanSaveNoOp: the dirty flag is not
\* looked at.
save_to_file_always(store, is_dirty, file, io, ord) ==
    CASE io = "CreateErr" ->
            [file |-> file, tag |-> "IoErr", create |-> TRUE]
      [] io = "WriteErr" ->
            [file |-> CorruptFile, tag |-> "IoErr", create |-> TRUE]
      [] io = "Ok" ->
            [file |-> DocFile(Serialize(store, ord)), tag |-> "Ok",
             create |-> TRUE]

\* FileProvider::save_to_file on the file now at the path: the file
\* afterwards, the result and whether File::create was called.
save_to_file(store, is_dirty, file, io, ord) ==
    IF is_dirty
    THEN CASE io = "CreateErr" ->
                [file |-> file, tag |-> "IoErr", create |-> TRUE]
           [] io = "WriteErr" ->
                [file |-> CorruptFile, tag |-> "IoErr", create |-> TRUE]
           [] io = "Ok" ->
                [file |-> DocFile(Serialize(store, ord)), tag |-> "Ok",
                 create |-> TRUE]
    ELSE [file |-> file, tag |-> "Ok", create |-> FALSE]

(* ---------------------- batch_get_partial_blocks ------------------------ *)

\* Variant of batch_get_partial_blocks for testing BatchHitRule: the batch is
\* answered from the cache only when the queried block is cached.
batch_get_partial_blocks_keyed(store, query) ==
    IF query \notin DOMAIN store.partial_blocks
    THEN [tag |-> "NoData", out |-> <<>>]
    ELSE LET keys == SortedKeys(DOMAIN store.partial_blocks) IN
         [tag |-> "Ok",
          out |-> [i \in DOMAIN keys |-> store.partial_blocks[keys[i]]]]

\* FileProvider::batch_get_partial_blocks: the query is ignored; every cached
\* partial block, in the BTreeMap's order, or an error when there is none.
batch_get_partial_blocks(store, query) ==
    IF DOMAIN store.partial_blocks = {}
    THEN [tag |-> "NoData", out |-> <<>>]
    ELSE LET keys == SortedKeys(DOMAIN store.partial_blocks) IN
         [tag |-> "Ok",
          out |-> [i \in DOMAIN keys |-> store.partial_blocks[keys[i]]]]

\* Variant of InsertBlocks for testing BatchBackFill: only the first block of
\* the live result is inserted.
InsertFirstBlock(store, blocks) ==
    IF blocks = <<>> THEN store
    ELSE insert_partial_block(store, blocks[1].of, blocks[1])

\* The loop of CachedRpcProvider::batch_get_partial_blocks: each block is
\* inserted under its own number.
RECURSIVE InsertBlocks(_, _)
InsertBlocks(store, blocks) ==
    IF blocks = <<>> THEN store
    ELSE InsertBlocks(insert_partial_block(store, blocks[1].of, blocks[1]),
                      Tail(blocks))

(* --------------------------- the live source ---------------------------- *)

\* rpc.get_*(query): an error, or the record of the queried key.
LiveAnswers(query) ==
    {Err("RpcErr")} \cup {Ok([of |-> query, data |-> d]) : d \in Payloads}

\* rpc.batch_get_partial_blocks(query): an error, or blocks of some numbers,
\* in ascending order.
LiveBatchAnswers ==
    {Err("RpcErr")} \cup
    UNION {{[tag |-> "Ok",
             out |-> [i \in DOMAIN SortedKeys(S) |->
                        [of |-> SortedKeys(S)[i], data |-> f[SortedKeys(S)[i]]]]] :
              f \in [S -> Payloads]} : S \in SUBSET Keys}

(* ------------------------ CachedRpcProvider ----------------------------- *)

\* Variant of cached_get for testing HitNoSideEffect: a hit marks the store
\* as modified.
cached_get_touch(store, is_dirty, kind, query, live) ==
    LET cache_out == FileGet(store, kind, query) IN
    IF cache_out.tag = "Ok"
    THEN [store |-> store, dirty |-> TRUE, tag |-> "Ok",
          out |-> cache_out.out, hit |-> TRUE, rpc |-> 0, ins |-> 0]
    ELSE IF live.tag # "Ok"
    THEN [store |-> store, dirty |-> is_dirty, tag |-> live.tag,
          out |-> <<>>, hit |-> FALSE, rpc |-> 1, ins |-> 0]
    ELSE [store |-> FileInsert(store, kind, query, live.out[1]),
          dirty |-> DirtyAfterInsert, tag |-> "Ok", out |-> live.out,
          hit |-> FALSE, rpc |-> 1, ins |-> 1]

\* Variant of cached_get for testing LiveFailureSurfaced: when the live
\* source fails the error of the cache lookup is returned in its place.
cached_get_swallow(store, is_dirty, kind, query, live) ==
    LET cache_out == FileGet(store, kind, query) IN
    IF cache_out.tag = "Ok"
    THEN [store |-> store, dirty |-> is_dirty, tag |-> "Ok",
          out |-> cache_out.out, hit |-> TRUE, rpc |-> 0, ins |-> 0]
    ELSE IF live.tag # "Ok"
    THEN [store |-> store, dirty |-> is_dirty, tag |-> cache_out.tag,
          out |-> <<>>, hit |-> FALSE, rpc |-> 1, ins |-> 0]
    ELSE [store |-> FileInsert(store, kind, query, live.out[1]),
          dirty |-> DirtyAfterInsert, tag |-> "Ok", out |-> live.out,
          hit |-> FALSE, rpc |-> 1, ins |-> 1]

\* The body shared by the nine get_* of CachedRpcProvider, given the answer
\* `live` the live source gives if it is called: the store and dirty flag
\* afterwards, the result, and the live-source calls and inserts made.
cached_get(store, is_dirty, kind, query, live) ==
    LET cache_out == FileGet(store, kind, query) IN
    IF cache_out.tag = "Ok"
    THEN [store |-> store, dirty |-> is_dirty, tag |-> "Ok",
          out |-> cache_out.out, hit |-> TRUE, rpc |-> 0, ins |-> 0]
    ELSE IF live.tag # "Ok"
    THEN [store |-> store, dirty |-> is_dirty, tag |-> live.tag,
          out |-> <<>>, hit |-> FALSE, rpc |-> 1, ins |-> 0]
    ELSE [store |-> FileInsert(store, kind, query, live.out[1]),
          dirty |-> DirtyAfterInsert, tag |-> "Ok", out |-> live.out,
          hit |-> FALSE, rpc |-> 1, ins |-> 1]

\* CachedRpcProvider::batch_get_partial_blocks.
cached_batch(store, is_dirty, query, live) ==
    LET cache_out == batch_get_partial_blocks(store, query) IN
    IF cache_out.tag = "Ok"
    THEN [store |-> store, dirty |-> is_dirty, tag |-> "Ok",
          out |-> cache_out.out, hit |-> TRUE, rpc |-> 0, ins |-> 0]
    ELSE IF live.tag # "Ok"
    THEN [store |-> store, dirty |-> is_dirty, tag |-> live.tag,
          out |-> <<>>, hit |-> FALSE, rpc |-> 1, ins |-> 0]
    ELSE [store |-> InsertBlocks(store, live.out),
          dirty |-> (is_dirty \/ live.out # <<>>), tag |-> "Ok",
          out |-> live.out, hit |-> FALSE, rpc |-> 1, ins |-> Len(live.out)]

(* --------------------------- the proof request -------------------------- *)

\* A JSON value (serde_json::Value): null, a number, a string or an object;
\* `s` is the scalar's text and `o` the object's members.
Null == [t |-> "null", s |-> "", o |-> <<>>]
Num(x) == [t |-> "num", s |-> x, o |-> <<>>]
Str(x) == [t |-> "str", s |-> x, o |-> <<>>]
Obj(f) == [t |-> "obj", s |-> "", o |-> f]

\* The nine required fields of ProofRequestOpt, in the order try_from reads
\* them.
RequiredFields ==
    <<"block_number", "rpc", "l1_rpc", "beacon_rpc", "network", "l1_network",
      "graffiti", "prover", "proof_type">>

FieldNames == {RequiredFields[i] : i \in DOMAIN RequiredFields}

\* ProverSpecificOpts: one optional value per backend.
BackendNames == {"native", "sgx", "sp1", "risc0"}

NoProverArgs == [b \in BackendNames |-> Null]

\* ProofRequestOpt::default(): every field None.
DefaultOpt ==
    [f \in FieldNames \cup {"prover_args"} |->
        IF f = "prover_args" THEN Obj(NoProverArgs) ELSE Null]

(* ------------------------------ state ----------------------------------- *)

VARIABLES
    provider,    \* "none", "file" (FileProvider) or "cached" (CachedRpcProvider)
    origin,      \* how the instance's store began: "none", "empty", "loaded"
    cache,       \* the mappings of the FileProvider
    file_path,   \* FileProvider.file_path
    dirty,       \* FileProvider.dirty
    disk,        \* the file at each path
    nwrites,     \* writing operations made so far
    last,        \* the last operation: its arguments, result and effects
    inserted,    \* history: per kind, the value last inserted under each key
                 \* in this instance
    saved,       \* history: per path, the store of the last save that wrote it
    scope        \* the query operations the run's caller uses

provider_vars ==
    <<provider, origin, cache, file_path, dirty, disk, nwrites, last, inserted,
      saved, scope>>

\* The enclave bootstrap (sgx_setup) and the prover dispatch (get_prover).
VARIABLES
    secret,      \* the enclave secret at secret_path: 0 none, n the n-th key
    marker,      \* the file "registered" next to the config file exists
    config,      \* the config file: readable or not, and sgx.instance_id
    chain,       \* the keys whose quote the on-chain verifier registered
    pc,          \* where the running sgx_setup stands, "idle" when none runs
    run,         \* the running (or last) sgx_setup: arguments and what it did
    result,      \* how the last sgx_setup ended
    features,    \* the prover backends compiled into the build
    got,         \* the outcome of the last get_prover
    faults       \* failures the collaborators of sgx_setup may still
                 \* produce; negative: any number

sgx_vars ==
    <<secret, marker, config, chain, pc, run, result, features, got, faults>>

\* The proof request (host/src/request.rs) and the provider selection.
VARIABLES
    call,        \* the last call of new_provider, ProofType::from_str or
                 \* ProofRequest::try_from: its argument and its result
    opt,         \* the ProofRequestOpt the layers are merged into
    layers       \* history: the overlays merged into opt so far

host_vars == <<call, opt, layers>>

vars == <<provider_vars, sgx_vars, host_vars>>

\* The operations one run uses. The seven HashMap fields are read, written
\* and serialised by the same code up to the field's name (blobs apart,
\* which is serialised as a JSON object): a run uses full_blocks or blobs
\* together with partial_blocks and propose, or one of the other fields
\* alone, so that every operation is used in some run.
Scopes ==
    {{h, "partial_blocks", "propose"} : h \in {"full_blocks", "blobs"}}
    \cup {{h} : h \in HashKinds \ {"full_blocks", "blobs"}}

NoHistory == [k \in Kinds |-> <<>>]

Last(op, kind, key, path, r) ==
    [op |-> op, kind |-> kind, key |-> key, path |-> path, tag |-> r.tag,
     out |-> r.out, hit |-> r.hit, rpc |-> r.rpc, ins |-> r.ins,
     create |-> r.create]

NoEffect(tag) ==
    [tag |-> tag, out |-> <<>>, hit |-> FALSE, rpc |-> 0, ins |-> 0,
     create |-> FALSE]

\* What a run of sgx_setup has done so far: its argument (registration
\* parameters given or not), whether the marker existed when it started, the
\* quote bootstrap returned and the instance id registration returned, and
\* how many times it launched the enclave to bootstrap, called the registry,
\* opened and wrote the config file and created the marker; the result of
\* check_bootstrap, the rest of the config document when the run started,
\* and the steps that succeeded, in order.
NoRun ==
    [reg |-> FALSE, premarker |-> FALSE, quote |-> 0, id |-> 0, boots |-> 0,
     regs |-> 0, cfg_reads |-> 0, cfg_writes |-> 0, marks |-> 0, chk |-> "",
     other0 |-> "", log |-> <<>>]

\* The rest of the config document: what it holds besides sgx.instance_id.
ConfigOthers == {"x", "y"}

\* No get_prover call yet.
NoProver ==
    [proof_type |-> "", reg_conf |-> FALSE, tag |-> "none", backend |-> ""]

\* No call yet.
NoCall == [fn |-> "none", arg |-> <<>>, res |-> [tag |-> "none"]]

\* No request is being built: ProofRequestOpt::default(), nothing merged.
HostFresh ==
    /\ call = NoCall
    /\ opt = DefaultOpt
    /\ layers = <<>>

\* A machine on which sgx_setup never ran: no secret, no marker, nothing
\* registered, a config file without instance id.
SgxFresh ==
    /\ secret = 0
    /\ marker = FALSE
    /\ config = [readable |-> TRUE, instance_id |-> 0, other |-> "x"]
    /\ chain = {}
    /\ pc = "idle"
    /\ run = NoRun
    /\ result = "none"
    /\ features = {}
    /\ got = NoProver
    /\ faults = -1

Init ==
    /\ SgxFresh
    /\ HostFresh
    /\ provider = "none"
    /\ origin = "none"
    /\ cache = EmptyStore
    /\ file_path = ""
    /\ dirty = FALSE
    /\ disk = [p \in Paths |-> IF p = "p1" THEN NoFile ELSE CorruptFile]
    /\ saved = [p \in Paths |-> EmptyStore]
    /\ scope \in Scopes
    /\ nwrites = 0
    /\ last = Last("init", "", 0, "", NoEffect("Ok"))
    /\ inserted = NoHistory

\* An operation that writes uses one unit of the run's budget.
Budget(writes) ==
    /\ writes => nwrites < MaxWrites
    /\ nwrites' = IF writes THEN nwrites + 1 ELSE nwrites

\* The instance `r` (a constructor's result) becomes the provider.
Construct(kind, how, r) ==
    /\ provider' = kind
    /\ origin' = how
    /\ cache' = r.store
    /\ file_path' = r.file_path
    /\ dirty' = r.dirty
    /\ inserted' = NoHistory

\* Variant of CachedNew for testing CachedNewFallback: the error of
\* read_from_file is returned, as new_file_provider returns it.
CachedNewStrict ==
    /\ provider = "none"
    /\ \E path \in Paths, rpc_ok \in BOOLEAN :
          LET r == read_from_file(disk[path], path) IN
          IF r.tag = "Ok" /\ rpc_ok
          THEN /\ Construct("cached", "loaded", r)
               /\ last' = Last("new_cached", "", 0, path, NoEffect("Ok"))
          ELSE /\ last' = Last("new_cached", "", 0, path,
                               NoEffect(IF r.tag = "Ok" THEN "RpcErr"
                                        ELSE r.tag))
               /\ UNCHANGED <<provider, origin, cache, file_path, dirty,
                              inserted>>
    /\ UNCHANGED <<disk, nwrites, saved, scope>>
    /\ UNCHANGED <<sgx_vars, host_vars>>

\* new_cached_rpc_provider, that is CachedRpcProvider::new: a read error
\* falls back to an empty store; the error of RpcProvider::new is returned.
new_cached_rpc_provider(path) ==
    /\ \E rpc_ok \in BOOLEAN :
          LET r == read_from_file(disk[path], path)
              c == IF r.tag = "Ok" THEN r ELSE empty(path)
          IN  IF rpc_ok
              THEN /\ Construct("cached",
                                IF r.tag = "Ok" THEN "loaded" ELSE "empty", c)
                   /\ last' = Last("new_cached", "", 0, path, NoEffect("Ok"))
              ELSE /\ last' = Last("new_cached", "", 0, path, NoEffect("RpcErr"))
                   /\ UNCHANGED <<provider, origin, cache, file_path, dirty,
                                  inserted>>
    /\ UNCHANGED <<disk, nwrites, saved, scope>>

\* A hybrid provider is constructed over some cache path.
CachedNew ==
    /\ provider = "none"
    /\ \E path \in Paths : new_cached_rpc_provider(path)
    /\ UNCHANGED <<sgx_vars, host_vars>>

\* new_file_provider: read_from_file, its error returned.
new_file_provider(path) ==
    /\ LET r == read_from_file(disk[path], path) IN
       IF r.tag = "Ok"
       THEN /\ Construct("file", "loaded", r)
            /\ last' = Last("new_file", "", 0, path, NoEffect("Ok"))
       ELSE /\ last' = Last("new_file", "", 0, path, NoEffect(r.tag))
            /\ UNCHANGED <<provider, origin, cache, file_path, dirty,
                           inserted>>
    /\ UNCHANGED <<disk, nwrites, saved, scope>>

\* A file-only provider is constructed over some cache path.
FileNew ==
    /\ provider = "none"
    /\ \E path \in Paths : new_file_provider(path)
    /\ UNCHANGED <<sgx_vars, host_vars>>

\* FileProvider::empty used directly.
FileEmpty ==
    /\ provider = "none"
    /\ \E path \in Paths :
          /\ Construct("file", "empty", empty(path))
          /\ last' = Last("empty", "", 0, path, NoEffect("Ok"))
    /\ UNCHANGED <<disk, nwrites, saved,
                   scope>>
    /\ UNCHANGED <<sgx_vars, host_vars>>

\* The provider is dropped at the end of its request.
Drop ==
    /\ provider # "none"
    /\ provider' = "none"
    /\ origin' = "none"
    /\ cache' = EmptyStore
    /\ file_path' = ""
    /\ dirty' = FALSE
    /\ inserted' = NoHistory
    /\ last' = Last("drop", "", 0, "", NoEffect("Ok"))
    /\ UNCHANGED <<disk, nwrites, saved,
                   scope>>
    /\ UNCHANGED <<sgx_vars, host_vars>>

\* History kept by a lookup of (kind, query) that returned `r`.
NoteLookup(kind, query, r) ==
    /\ inserted' =
          IF r.ins = 1
          THEN [inserted EXCEPT ![kind] = MapInsert(@, query, r.out[1])]
          ELSE inserted

\* One of the nine get_* of the hybrid provider.
CachedGet ==
    /\ provider = "cached"
    /\ \E kind \in scope, query \in Keys :
          \E live \in LiveAnswers(query) :
             LET r == cached_get(cache, dirty, kind, query, live) IN
             /\ Budget(r.ins > 0)
             /\ cache' = r.store
             /\ dirty' = r.dirty
             /\ last' = Last("get", kind, query, file_path,
                             r @@ [create |-> FALSE])
             /\ NoteLookup(kind, query, r)
    /\ UNCHANGED <<provider, origin, file_path, disk, saved,
                   scope>>
    /\ UNCHANGED <<sgx_vars, host_vars>>

\* History kept by a batch that inserted the blocks `r.out`.
RECURSIVE NoteBlocks(_, _)
NoteBlocks(h, blocks) ==
    IF blocks = <<>> THEN h
    ELSE NoteBlocks(MapInsert(h, blocks[1].of, blocks[1]), Tail(blocks))

\* batch_get_partial_blocks of the hybrid provider.
CachedBatch ==
    /\ provider = "cached"
    /\ \E query \in Keys :
       \E live \in IF batch_get_partial_blocks(cache, query).tag = "Ok"
                   THEN {Err("RpcErr")}    \* not called: nothing to choose
                   ELSE LiveBatchAnswers :
          LET r == cached_batch(cache, dirty, query, live) IN
          /\ Budget(r.ins > 0)
          /\ cache' = r.store
          /\ dirty' = r.dirty
          /\ last' = Last("batch", "partial_blocks", query, file_path,
                          r @@ [create |-> FALSE])
          /\ inserted' =
                IF r.ins > 0
                THEN [inserted EXCEPT
                        !["partial_blocks"] = NoteBlocks(@, r.out)]
                ELSE inserted
    /\ UNCHANGED <<provider, origin, file_path, disk, saved,
                   scope>>
    /\ UNCHANGED <<sgx_vars, host_vars>>

\* Variant of file_get for testing FileOnlyMissFails: a miss answers with
\* an empty result instead of the error.
file_get_lenient(store, kind, query) ==
    LET out == FileGet(store, kind, query) IN
    [tag |-> "Ok", out |-> out.out, hit |-> out.tag = "Ok", rpc |-> 0,
     ins |-> 0, create |-> FALSE]

\* A get_* of the file-only provider, as result and effects.
file_get(store, kind, query) ==
    LET out == FileGet(store, kind, query) IN
    [tag |-> out.tag, out |-> out.out, hit |-> out.tag = "Ok", rpc |-> 0,
     ins |-> 0, create |-> FALSE]

\* One of the nine get_* of the file-only provider.
FileGetOp ==
    /\ provider = "file"
    /\ \E kind \in scope, query \in Keys :
          LET r == file_get(cache, kind, query) IN
          /\ Budget(FALSE)
          /\ last' = Last("get", kind, query, file_path, r)
          /\ NoteLookup(kind, query, r)
    /\ UNCHANGED <<provider, origin, cache, file_path, dirty, disk, saved,
                   scope>>
    /\ UNCHANGED <<sgx_vars, host_vars>>

\* batch_get_partial_blocks of the file-only provider.
FileBatch ==
    /\ provider = "file"
    /\ Budget(FALSE)
    /\ \E query \in Keys :
          LET out == batch_get_partial_blocks(cache, query) IN
          last' = Last("batch", "partial_blocks", query, file_path,
                       [tag |-> out.tag, out |-> out.out,
                        hit |-> out.tag = "Ok", rpc |-> 0, ins |-> 0,
                        create |-> FALSE])
    /\ UNCHANGED <<provider, origin, cache, file_path, dirty, disk, inserted, saved,
                   scope>>
    /\ UNCHANGED <<sgx_vars, host_vars>>

\* One of the nine insert_* of MutProvider, called on a FileProvider. Only
\* the number of a block is read by the code (by the batch back-fill), so
\* for the other kinds the value is told by its payload alone.
FileInsertOp ==
    /\ provider = "file"
    /\ Budget(TRUE)
    /\ \E kind \in scope, query \in Keys, val \in Vals :
          /\ kind # "partial_blocks" => val.of = query
          /\ cache' = FileInsert(cache, kind, query, val)
          /\ dirty' = DirtyAfterInsert
          /\ last' = Last("insert", kind, query, file_path,
                          [tag |-> "Ok", out |-> <<val>>, hit |-> FALSE,
                           rpc |-> 0, ins |-> 1, create |-> FALSE])
          /\ inserted' = [inserted EXCEPT ![kind] = MapInsert(@, query, val)]
    /\ UNCHANGED <<provider, origin, file_path, disk, saved,
                   scope>>
    /\ UNCHANGED <<sgx_vars, host_vars>>

\* Variant of Save for testing SavePreservesStore: a save that wrote the
\* file empties the in-memory store.
SaveClearing ==
    /\ provider \in {"file", "cached"}
    /\ \E io \in IoOutcomes, ord \in Orders(cache) :
          LET r == save_to_file(cache, dirty, disk[file_path], io, ord) IN
          /\ Budget(r.create)
          /\ disk' = [disk EXCEPT ![file_path] = r.file]
          /\ saved' = IF r.create /\ r.tag = "Ok"
                      THEN [saved EXCEPT ![file_path] = cache]
                      ELSE saved
          /\ cache' = IF r.create /\ r.tag = "Ok" THEN EmptyStore ELSE cache
          /\ last' = Last("save", "", 0, file_path,
                          [tag |-> r.tag, out |-> <<>>, hit |-> FALSE,
                           rpc |-> 0, ins |-> 0, create |-> r.create])
    /\ UNCHANGED <<provider, origin, file_path, dirty, inserted, scope>>
    /\ UNCHANGED <<sgx_vars, host_vars>>

\* Provider::save of either provider (CachedRpcProvider::save calls the
\* FileProvider's): save_to_file(&self.file_path). It takes &self: no field
\* of the provider is assigned.
Save ==
    /\ provider \in {"file", "cached"}
    /\ \E io \in IoOutcomes, ord \in Orders(cache) :
          LET r == save_to_file(cache, dirty, disk[file_path], io, ord) IN
          /\ Budget(r.create)
          /\ disk' = [disk EXCEPT ![file_path] = r.file]
          /\ saved' = IF r.create /\ r.tag = "Ok"
                      THEN [saved EXCEPT ![file_path] = cache]
                      ELSE saved
          /\ last' = Last("save", "", 0, file_path,
                          [tag |-> r.tag, out |-> <<>>, hit |-> FALSE,
                           rpc |-> 0, ins |-> 0, create |-> r.create])
    /\ UNCHANGED <<provider, origin, cache, file_path, dirty, inserted, scope>>
    /\ UNCHANGED <<sgx_vars, host_vars>>

Next ==
    \/ CachedNew
    \/ FileNew
    \/ FileEmpty
    \/ Drop
    \/ CachedGet
    \/ CachedBatch
    \/ FileGetOp
    \/ FileBatch
    \/ FileInsertOp
    \/ Save

Spec == Init /\ [][Next]_vars

(* ------------------------- new_provider: selection ---------------------- *)

\* cache_path: None.
NoPath == ""

\* new_rpc_provider: RpcProvider::new, its error returned; the provider has
\* no cache store and no cache path.
new_rpc_provider ==
    /\ \E rpc_ok \in BOOLEAN :
          IF rpc_ok
          THEN /\ Construct("rpc", "none", empty(NoPath))
               /\ last' = Last("new_rpc", "", 0, NoPath, NoEffect("Ok"))
          ELSE /\ last' = Last("new_rpc", "", 0, NoPath, NoEffect("RpcErr"))
               /\ UNCHANGED <<provider, origin, cache, file_path, dirty,
                              inserted>>
    /\ UNCHANGED <<disk, nwrites, saved, scope>>

\* Err(anyhow!("No cache_path or rpc_url given"))
no_provider ==
    /\ last' = Last("new_provider", "", 0, NoPath, NoEffect("NoSource"))
    /\ UNCHANGED <<provider, origin, cache, file_path, dirty, inserted, disk,
                   nwrites, saved, scope>>

\* Variant of new_provider for testing ProviderSelection: an RPC URL alone
\* decides, and the cache path is used only without one.
new_provider_rpc_first(cache_path, rpc_url) ==
    CASE rpc_url -> "rpc"
      [] ~rpc_url /\ cache_path # NoPath -> "file"
      [] OTHER -> "none"

\* new_provider: the match on (cache_path, rpc_url); rpc_url is given or not.
new_provider(cache_path, rpc_url) ==
    CASE cache_path # NoPath /\ rpc_url -> "cached"
      [] cache_path # NoPath /\ ~rpc_url -> "file"
      [] cache_path = NoPath /\ rpc_url -> "rpc"
      [] OTHER -> "none"

\* new_provider is called.
NewProvider ==
    /\ provider = "none"
    /\ \E cache_path \in Paths \cup {NoPath}, rpc_url \in BOOLEAN :
          LET selected == new_provider(cache_path, rpc_url) IN
          /\ CASE selected = "cached" -> new_cached_rpc_provider(cache_path)
                [] selected = "file" -> new_file_provider(cache_path)
                [] selected = "rpc" -> new_rpc_provider
                [] OTHER -> no_provider
          /\ call' = [fn |-> "new_provider",
                      arg |-> [cache_path |-> cache_path, rpc_url |-> rpc_url],
                      res |-> [tag |-> last'.tag]]
    /\ UNCHANGED <<opt, layers>>
    /\ UNCHANGED sgx_vars

\* One of the get_* of the live-only provider: the live source is asked, and
\* there is no cache to look into or to fill.
RpcGet ==
    /\ provider = "rpc"
    /\ \E kind \in scope, query \in Keys :
          \E live \in LiveAnswers(query) :
             last' = Last("get", kind, query, NoPath,
                          [tag |-> live.tag, out |-> live.out, hit |-> FALSE,
                           rpc |-> 1, ins |-> 0, create |-> FALSE])
    /\ UNCHANGED <<provider, origin, cache, file_path, dirty, disk, nwrites,
                   inserted, saved, scope>>
    /\ UNCHANGED <<sgx_vars, host_vars>>

\* Provider::save of the live-only provider: there is nothing to write.
RpcSave ==
    /\ provider = "rpc"
    /\ last' = Last("save", "", 0, NoPath, NoEffect("Ok"))
    /\ UNCHANGED <<provider, origin, cache, file_path, dirty, disk, nwrites,
                   inserted, saved, scope>>
    /\ UNCHANGED <<sgx_vars, host_vars>>

\* A caller that obtains its provider from new_provider, queries it, saves
\* and drops it.
SelectInit ==
    /\ SgxFresh
    /\ HostFresh
    /\ provider = "none"
    /\ origin = "none"
    /\ cache = EmptyStore
    /\ file_path = ""
    /\ dirty = FALSE
    /\ disk = [p \in Paths |-> IF p = "p1" THEN NoFile ELSE CorruptFile]
    /\ saved = [p \in Paths |-> EmptyStore]
    /\ scope = {"proofs"}
    /\ nwrites = 0
    /\ last = Last("init", "", 0, "", NoEffect("Ok"))
    /\ inserted = NoHistory

SelectNext ==
    \/ NewProvider
    \/ Drop
    \/ CachedGet
    \/ FileGetOp
    \/ RpcGet
    \/ Save
    \/ RpcSave

SelectSpec == SelectInit /\ [][SelectNext]_vars

(* --------------------- save and reload of any store --------------------- *)

\* The mappings a sequence of inserts can build for a kind: any entries
\* under any of the keys.
MapsOf(kind) ==
    UNION {[D -> Vals] : D \in SUBSET Keys}

\* The stores a file-only provider created empty can hold after inserts of
\* the kinds of `s`, each value inserted under its own key.
StoresOf(s) ==
    {st \in [full_blocks : IF "full_blocks" \in s THEN MapsOf("full_blocks")
                           ELSE {<<>>},
             partial_blocks : IF "partial_blocks" \in s
                              THEN MapsOf("partial_blocks") ELSE {<<>>},
             proofs : IF "proofs" \in s THEN MapsOf("proofs") ELSE {<<>>},
             transaction_count : IF "transaction_count" \in s
                                 THEN MapsOf("transaction_count") ELSE {<<>>},
             balance : IF "balance" \in s THEN MapsOf("balance") ELSE {<<>>},
             code : IF "code" \in s THEN MapsOf("code") ELSE {<<>>},
             storage : IF "storage" \in s THEN MapsOf("storage") ELSE {<<>>},
             propose : IF "propose" \in s
                       THEN {<<>>} \cup {<<v>> : v \in Vals} ELSE {<<>>},
             blobs : IF "blobs" \in s THEN MapsOf("blobs") ELSE {<<>>}] :
        \A k \in MapKinds : \A q \in DOMAIN st[k] : st[k][q].of = q}

\* The inserts that built the store.
HistoryOf(store) ==
    [k \in Kinds |->
        IF k # "propose" THEN store[k]
        ELSE IF store.propose = <<>> THEN <<>>
        ELSE (store.propose[1].of :> store.propose[1])]

\* A file-only provider created empty that has received any inserts.
RoundTripInit ==
    /\ SgxFresh
    /\ HostFresh
    /\ provider = "file"
    /\ origin = "empty"
    /\ scope \in Scopes
    /\ cache \in StoresOf(scope)
    /\ file_path = "p1"
    /\ dirty = (cache # EmptyStore)
    /\ disk = [p \in Paths |-> IF p = "p1" THEN NoFile ELSE CorruptFile]
    /\ saved = [p \in Paths |-> EmptyStore]
    /\ nwrites = 0
    /\ last = Last("init", "", 0, "", NoEffect("Ok"))
    /\ inserted = HistoryOf(cache)

\* The store is saved, dropped, loaded again and queried.
RoundTripNext ==
    \/ Save
    \/ Drop
    \/ FileNew
    \/ CachedNew
    \/ FileGetOp
    \/ FileBatch

RoundTripSpec == RoundTripInit /\ [][RoundTripNext]_vars

(* ------------------------ sgx_setup: the bootstrap ---------------------- *)

\* check_bootstrap: the enclave is launched in check mode; it succeeds only
\* if the secret exists and loads, and fails when the secret is missing or
\* the launch fails.
check_bootstrap(sec) ==
    IF sec = 0 THEN {"Err"} ELSE {"Ok", "Err"}

\* bootstrap: the enclave generates a fresh key, seals it to the secret file
\* and returns the quote of that key; or it fails and the sequence aborts.
bootstrap(sec) ==
    {[tag |-> "Ok", secret |-> sec + 1, quote |-> sec + 1],
     [tag |-> "Err", secret |-> sec, quote |-> 0]}

\* register_sgx_instance: the verifier contract registers the quote and
\* returns the instance id (told here by the key it was given for), or the
\* call fails and nothing is registered.
register_sgx_instance(quote, registry) ==
    {[tag |-> "Ok", chain |-> registry \cup {quote}, id |-> quote],
     [tag |-> "Err", chain |-> registry, id |-> 0]}

\* Variant of need_init for testing BootstrapDecisionRule: a secret that
\* loads is kept, whether the marker is there or not.
need_init_check_only(chk, reg, mark) ==
    chk = "Err"

\* need_init: the check failed, or registration is asked for and the marker
\* is not there.
need_init(chk, reg, mark) ==
    chk = "Err" \/ (reg /\ ~mark)

\* Variant of remove_marker for testing EventualRegistration: a marker that
\* is not there (NotFound) is an error like any other.
remove_marker_strict(mark, io) ==
    IF io = "Ok" /\ mark THEN [marker |-> FALSE, tag |-> "Ok"]
    ELSE [marker |-> mark, tag |-> "Err"]

\* fs::remove_file(&registered_check_file) with NotFound turned into Ok:
\* whether the marker is there afterwards, and the result.
remove_marker(mark, io) ==
    IF io = "Ok" THEN [marker |-> FALSE, tag |-> "Ok"]
    ELSE [marker |-> mark, tag |-> "Err"]

\* The run returns `res`.
SgxReturn(res) ==
    /\ pc' = "idle"
    /\ result' = res

\* A step fails: the collaborator (enclave launch, registry call, file
\* system) may fail as long as the environment's allowance of failures is not
\* used up; a negative allowance is unlimited.
SgxFail(res) ==
    /\ faults # 0
    /\ faults' = IF faults < 0 THEN faults ELSE faults - 1
    /\ SgxReturn(res)

\* sgx_setup is called with registration parameters (reg) or without.
SgxStartWith(reg) ==
    /\ pc = "idle"
    /\ secret < MaxKeys
    /\ run' = [NoRun EXCEPT !.reg = reg, !.premarker = marker,
                            !.other0 = config.other]
    /\ pc' = "check"
    /\ result' = "running"
    /\ UNCHANGED <<secret, marker, config, chain, features, got, faults>>
    /\ UNCHANGED <<provider_vars, host_vars>>

\* sgx_setup is called, with or without registration parameters.
SgxStart == \E reg \in BOOLEAN : SgxStartWith(reg)

\* let need_init = check_bootstrap(..).is_err() || (.. && metadata(..).is_err())
SgxCheck ==
    /\ pc = "check"
    /\ \E chk \in check_bootstrap(secret) :
          /\ run' = [run EXCEPT !.chk = chk]
          /\ IF need_init(chk, run.reg, marker)
             THEN pc' = "bootstrap" /\ result' = result
             ELSE SgxReturn("Ok")
    /\ UNCHANGED <<secret, marker, config, chain, features, got, faults>>
    /\ UNCHANGED <<provider_vars, host_vars>>

\* let bootstrap_proof = bootstrap(secret_path, gramine_cmd()).await?;
SgxBootstrap ==
    /\ pc = "bootstrap"
    /\ \E b \in bootstrap(secret) :
          /\ secret' = b.secret
          /\ IF b.tag = "Ok"
             THEN /\ run' = [run EXCEPT !.boots = @ + 1, !.quote = b.quote,
                                        !.log = Append(@, "bootstrap")]
                  /\ pc' = "remove"
                  /\ result' = result
                  /\ faults' = faults
             ELSE /\ run' = [run EXCEPT !.boots = @ + 1, !.quote = b.quote]
                  /\ SgxFail("Err")
    /\ UNCHANGED <<marker, config, chain, features, got>>
    /\ UNCHANGED <<provider_vars, host_vars>>

\* Variant of SgxRemoveMarker for testing RegistrationOptional: registration
\* follows whether its parameters were given or not.
SgxRemoveMarkerThenRegister ==
    /\ pc = "remove"
    /\ \E io \in {"Ok", "Err"} :
          LET r == remove_marker(marker, io) IN
          /\ marker' = r.marker
          /\ IF r.tag = "Err" THEN SgxFail("Err")
             ELSE pc' = "register" /\ result' = result /\ faults' = faults
    /\ UNCHANGED <<secret, config, chain, run, features, got>>
    /\ UNCHANGED <<provider_vars, host_vars>>

\* match fs::remove_file(&registered_check_file) { .. }?; then registration
\* if its parameters were given, else Ok(()).
SgxRemoveMarker ==
    /\ pc = "remove"
    /\ \E io \in {"Ok", "Err"} :
          LET r == remove_marker(marker, io) IN
          /\ marker' = r.marker
          /\ IF r.tag = "Err" THEN SgxFail("Err")
             ELSE /\ faults' = faults
                  /\ IF run.reg THEN pc' = "register" /\ result' = result
                     ELSE SgxReturn("Ok")
    /\ UNCHANGED <<secret, config, chain, run, features, got>>
    /\ UNCHANGED <<provider_vars, host_vars>>

\* Variant of SgxRegister for testing MarkerAfterAllSteps: a failed
\* registration call is logged and the sequence goes on.
SgxRegisterIgnoringFailure ==
    /\ pc = "register"
    /\ \E r \in register_sgx_instance(run.quote, chain) :
          /\ chain' = r.chain
          /\ IF r.tag = "Ok"
             THEN run' = [run EXCEPT !.regs = @ + 1, !.id = r.id,
                                     !.log = Append(@, "register")]
             ELSE run' = [run EXCEPT !.regs = @ + 1, !.id = r.id]
          /\ pc' = "read_config"
          /\ result' = result
          /\ faults' = faults
    /\ UNCHANGED <<secret, marker, config, features, got>>
    /\ UNCHANGED <<provider_vars, host_vars>>

\* register_sgx_instance(&bootstrap_proof.quote, ..).await.map_err(..)?
SgxRegister ==
    /\ pc = "register"
    /\ \E r \in register_sgx_instance(run.quote, chain) :
          /\ chain' = r.chain
          /\ IF r.tag = "Ok"
             THEN /\ run' = [run EXCEPT !.regs = @ + 1, !.id = r.id,
                                        !.log = Append(@, "register")]
                  /\ pc' = "read_config"
                  /\ result' = result
                  /\ faults' = faults
             ELSE /\ run' = [run EXCEPT !.regs = @ + 1, !.id = r.id]
                  /\ SgxFail("Err")
    /\ UNCHANGED <<secret, marker, config, features, got>>
    /\ UNCHANGED <<provider_vars, host_vars>>

\* File::open(config_path)? and serde_json::from_reader(reader)?
SgxReadConfig ==
    /\ pc = "read_config"
    /\ run' = [run EXCEPT !.cfg_reads = @ + 1]
    /\ IF config.readable
       THEN pc' = "write_config" /\ result' = result /\ faults' = faults
       ELSE SgxFail("Err")
    /\ UNCHANGED <<secret, marker, config, chain, features, got>>
    /\ UNCHANGED <<provider_vars, host_vars>>

\* Variant of SgxWriteConfig for testing InstanceIdPersisted: a new document
\* holding the instance id alone is written.
SgxWriteConfigFresh ==
    /\ pc = "write_config"
    /\ \/ /\ config' = [readable |-> TRUE, instance_id |-> run.id,
                        other |-> ""]
          /\ run' = [run EXCEPT !.cfg_writes = @ + 1,
                                !.log = Append(@, "config")]
          /\ pc' = "create_marker"
          /\ result' = result
          /\ faults' = faults
       \/ /\ config' \in {config, [config EXCEPT !.readable = FALSE]}
          /\ run' = [run EXCEPT !.cfg_writes = @ + 1]
          /\ SgxFail("Err")
    /\ UNCHANGED <<secret, marker, chain, features, got>>
    /\ UNCHANGED <<provider_vars, host_vars>>

\* file_config["sgx"]["instance_id"] = ..; fs::write(config_path, json)?:
\* the document read, with the instance id set, replaces the file; a failed
\* write leaves the old file or a truncated one.
SgxWriteConfig ==
    /\ pc = "write_config"
    /\ \/ /\ config' = [config EXCEPT !.instance_id = run.id]
          /\ run' = [run EXCEPT !.cfg_writes = @ + 1,
                                !.log = Append(@, "config")]
          /\ pc' = "create_marker"
          /\ result' = result
          /\ faults' = faults
       \/ /\ config' \in {config, [config EXCEPT !.readable = FALSE]}
          /\ run' = [run EXCEPT !.cfg_writes = @ + 1]
          /\ SgxFail("Err")
    /\ UNCHANGED <<secret, marker, chain, features, got>>
    /\ UNCHANGED <<provider_vars, host_vars>>

\* File::create(&registered_check_file)?; and the final Ok(()).
SgxCreateMarker ==
    /\ pc = "create_marker"
    /\ \/ /\ marker' = TRUE
          /\ run' = [run EXCEPT !.marks = @ + 1, !.log = Append(@, "marker")]
          /\ SgxReturn("Ok")
          /\ faults' = faults
       \/ /\ UNCHANGED <<marker, run>>
          /\ SgxFail("Err")
    /\ UNCHANGED <<secret, config, chain, features, got>>
    /\ UNCHANGED <<provider_vars, host_vars>>

\* The process is killed between two steps of sgx_setup.
SgxCrash ==
    /\ pc # "idle"
    /\ SgxFail("Crash")
    /\ UNCHANGED <<secret, marker, config, chain, run, features, got>>
    /\ UNCHANGED <<provider_vars, host_vars>>

\* The operator puts a well-formed config file back at config_path (with the
\* content it had): sgx_setup itself only ever opens and rewrites that file.
SgxRepairConfig ==
    /\ ~config.readable
    /\ config' = [config EXCEPT !.readable = TRUE]
    /\ UNCHANGED <<secret, marker, chain, pc, run, result, features, got,
                   faults>>
    /\ UNCHANGED <<provider_vars, host_vars>>

(* ------------------------ get_prover: the dispatch ---------------------- *)

\* enum ProofType.
ProofTypes == {"native", "sp1", "sgx", "risc0"}

\* The cargo features that compile a backend in.
Backends == {"sp1", "risc0", "sgx"}

\* A constructed prover of the backend.
Prover(backend) == [tag |-> "Ok", backend |-> backend]

\* panic!("Feature not supported: {:?}", self)
FeatureNotSupported == [tag |-> "FeatureNotSupported", backend |-> ""]

\* The state the enclave backend requires: Registered (the marker exists)
\* when on-chain registration is configured, else at least Bootstrapped (the
\* secret exists).
EnclaveReady(sec, mark, reg_conf) ==
    IF reg_conf THEN mark ELSE sec # 0

\* Variant of SgxProver_new for testing EnclaveNeedsBootstrap: the prover is
\* constructed whatever the state of the bootstrap.
SgxProver_new_unchecked(ready) == Prover("sgx")

\* sgx_prover::SgxProver::new(conf): succeeds only once the bootstrap has
\* reached the required state.
SgxProver_new(ready) ==
    IF ready THEN Prover("sgx")
    ELSE [tag |-> "NotBootstrapped", backend |-> ""]

\* Variant of get_prover for testing BackendUnavailable: a backend that is
\* not compiled in is replaced by the native prover.
get_prover_fallback(proof_type, feats, ready) ==
    CASE proof_type = "native" -> Prover("native")
      [] proof_type = "sp1" ->
            IF "sp1" \in feats THEN Prover("sp1") ELSE Prover("native")
      [] proof_type = "risc0" ->
            IF "risc0" \in feats THEN Prover("risc0") ELSE Prover("native")
      [] proof_type = "sgx" ->
            IF "sgx" \in feats THEN SgxProver_new(ready)
            ELSE Prover("native")

\* ProofType::get_prover in a build with the features `feats`.
get_prover(proof_type, feats, ready) ==
    CASE proof_type = "native" -> Prover("native")
      [] proof_type = "sp1" ->
            IF "sp1" \in feats THEN Prover("sp1") ELSE FeatureNotSupported
      [] proof_type = "risc0" ->
            IF "risc0" \in feats THEN Prover("risc0") ELSE FeatureNotSupported
      [] proof_type = "sgx" ->
            IF "sgx" \in feats THEN SgxProver_new(ready)
            ELSE FeatureNotSupported

\* get_prover is called for a proof type, with a backend configuration that
\* asks for on-chain registration or not.
GetProver ==
    /\ \E proof_type \in ProofTypes, reg_conf \in BOOLEAN :
          LET r == get_prover(proof_type, features,
                              EnclaveReady(secret, marker, reg_conf))
          IN  got' = [proof_type |-> proof_type, reg_conf |-> reg_conf,
                      tag |-> r.tag, backend |-> r.backend]
    /\ UNCHANGED <<secret, marker, config, chain, pc, run, result, features,
                   faults>>
    /\ UNCHANGED <<provider_vars, host_vars>>

\* A build with any set of backends, on a machine on which sgx_setup never
\* ran, with a config file that can be read or not.
SgxInit ==
    /\ provider = "none"
    /\ origin = "none"
    /\ cache = EmptyStore
    /\ file_path = ""
    /\ dirty = FALSE
    /\ disk = [p \in Paths |-> IF p = "p1" THEN NoFile ELSE CorruptFile]
    /\ saved = [p \in Paths |-> EmptyStore]
    /\ scope = {"proofs"}
    /\ nwrites = 0
    /\ last = Last("init", "", 0, "", NoEffect("Ok"))
    /\ inserted = NoHistory
    /\ secret = 0
    /\ marker = FALSE
    /\ config \in [readable : BOOLEAN, instance_id : {0},
                    other : ConfigOthers]
    /\ chain = {}
    /\ pc = "idle"
    /\ run = NoRun
    /\ result = "none"
    /\ features \in SUBSET Backends
    /\ got = NoProver
    /\ faults = -1
    /\ HostFresh

SgxNext ==
    \/ SgxStart
    \/ SgxCheck
    \/ SgxBootstrap
    \/ SgxRemoveMarker
    \/ SgxRegister
    \/ SgxReadConfig
    \/ SgxWriteConfig
    \/ SgxCreateMarker
    \/ SgxCrash
    \/ SgxRepairConfig
    \/ GetProver

SgxSpec == SgxInit /\ [][SgxNext]_vars

\* sgx_setup with registration parameters, re-run after every run, in an
\* environment whose collaborators fail a bounded number of times: each
\* failed run may use up a key, so fewer failures than keys are allowed.
SgxRetryInit ==
    /\ provider = "none"
    /\ origin = "none"
    /\ cache = EmptyStore
    /\ file_path = ""
    /\ dirty = FALSE
    /\ disk = [p \in Paths |-> IF p = "p1" THEN NoFile ELSE CorruptFile]
    /\ saved = [p \in Paths |-> EmptyStore]
    /\ scope = {"proofs"}
    /\ nwrites = 0
    /\ last = Last("init", "", 0, "", NoEffect("Ok"))
    /\ inserted = NoHistory
    /\ secret = 0
    /\ marker = FALSE
    /\ config \in [readable : BOOLEAN, instance_id : {0},
                    other : ConfigOthers]
    /\ chain = {}
    /\ pc = "idle"
    /\ run = NoRun
    /\ result = "none"
    /\ features = Backends
    /\ got = NoProver
    /\ faults = MaxKeys - 1
    /\ HostFresh

SgxRetryNext ==
    \/ SgxStartWith(TRUE)
    \/ SgxCheck
    \/ SgxBootstrap
    \/ SgxRemoveMarker
    \/ SgxRegister
    \/ SgxReadConfig
    \/ SgxWriteConfig
    \/ SgxCreateMarker
    \/ SgxCrash
    \/ SgxRepairConfig

\* The caller starts the next run and every started step completes: some
\* step is taken whenever one can be.
SgxRetrySpec ==
    SgxRetryInit /\ [][SgxRetryNext]_vars /\ WF_vars(SgxRetryNext)

(* ----------------------- ProofType: Display and FromStr ----------------- *)

\* A string is the sequence of its characters.
Whitespace == {" ", "\t", "\n"}

\* char::to_lowercase on the letters of the inputs.
ToLowerChar(c) ==
    CASE c = "N" -> "n" [] c = "A" -> "a" [] c = "T" -> "t" [] c = "I" -> "i"
      [] c = "V" -> "v" [] c = "E" -> "e" [] c = "S" -> "s" [] c = "P" -> "p"
      [] c = "G" -> "g" [] c = "X" -> "x" [] c = "R" -> "r" [] c = "C" -> "c"
      [] OTHER -> c

\* str::to_lowercase.
to_lowercase(s) == [i \in DOMAIN s |-> ToLowerChar(s[i])]

\* str::trim: leading and trailing whitespace is removed.
RECURSIVE trim_start(_)
trim_start(s) ==
    IF s # <<>> /\ s[1] \in Whitespace THEN trim_start(Tail(s)) ELSE s

RECURSIVE trim_end(_)
trim_end(s) ==
    IF s # <<>> /\ s[Len(s)] \in Whitespace
    THEN trim_end(SubSeq(s, 1, Len(s) - 1))
    ELSE s

trim(s) == trim_end(trim_start(s))

\* impl Display for ProofType.
Display(proof_type) ==
    CASE proof_type = "native" -> <<"n", "a", "t", "i", "v", "e">>
      [] proof_type = "sp1" -> <<"s", "p", "1">>
      [] proof_type = "sgx" -> <<"s", "g", "x">>
      [] proof_type = "risc0" -> <<"r", "i", "s", "c", "0">>

\* Err(HostError::InvalidProofType(s.to_string()))
InvalidProofType(s) == [tag |-> "InvalidProofType", type |-> "", text |-> s]

Parsed(proof_type) == [tag |-> "Ok", type |-> proof_type, text |-> <<>>]

\* Variant of from_str for testing ProofTypeParsing: the trimmed string is
\* matched as it is written.
from_str_exact_case(s) ==
    LET name == trim(s) IN
    CASE name = <<"n", "a", "t", "i", "v", "e">> -> Parsed("native")
      [] name = <<"s", "p", "1">> -> Parsed("sp1")
      [] name = <<"s", "g", "x">> -> Parsed("sgx")
      [] name = <<"r", "i", "s", "c", "0">> -> Parsed("risc0")
      [] OTHER -> InvalidProofType(s)

\* impl FromStr for ProofType: match s.trim().to_lowercase().as_str().
from_str(s) ==
    LET name == to_lowercase(trim(s)) IN
    CASE name = <<"n", "a", "t", "i", "v", "e">> -> Parsed("native")
      [] name = <<"s", "p", "1">> -> Parsed("sp1")
      [] name = <<"s", "g", "x">> -> Parsed("sgx")
      [] name = <<"r", "i", "s", "c", "0">> -> Parsed("risc0")
      [] OTHER -> InvalidProofType(s)

\* The strings parsed: a canonical name or a string that is none, written in
\* lower case, in upper case or with one capital, between two runs of at most
\* MaxPad whitespace characters.
ToUpperChar(c) ==
    CASE c = "n" -> "N" [] c = "a" -> "A" [] c = "t" -> "T" [] c = "i" -> "I"
      [] c = "v" -> "V" [] c = "e" -> "E" [] c = "s" -> "S" [] c = "p" -> "P"
      [] c = "g" -> "G" [] c = "x" -> "X" [] c = "r" -> "R" [] c = "c" -> "C"
      [] OTHER -> c

Spellings(s) ==
    {s, [i \in DOMAIN s |-> ToUpperChar(s[i])]}
    \cup {[i \in DOMAIN s |-> IF i = k THEN ToUpperChar(s[i]) ELSE s[i]] :
            k \in {1, Len(s)} \cap DOMAIN s}

NotNames ==
    {<<>>, <<"s", "g">>, <<"s", "g", "x", "1">>, <<"s", " ", "g", "x">>,
     <<"s", "p", "l">>, <<"r", "i", "s", "c", "o">>}

Pads == UNION {[1..n -> Whitespace] : n \in 0..MaxPad}

ProofTypeStrings ==
    {l \o w \o r :
        l \in Pads, r \in Pads,
        w \in UNION {Spellings(b) :
                        b \in {Display(t) : t \in ProofTypes} \cup NotNames}}

\* The string given is parsed.
ParseProofType ==
    /\ call.fn = "given"
    /\ call' = [fn |-> "from_str", arg |-> call.arg,
                res |-> from_str(call.arg)]
    /\ UNCHANGED <<opt, layers>>
    /\ UNCHANGED <<provider_vars, sgx_vars>>

\* Some string is given to ProofType::from_str.
ParseInit ==
    /\ SgxFresh
    /\ call \in {[fn |-> "given", arg |-> s, res |-> [tag |-> "none"]] :
                    s \in ProofTypeStrings}
    /\ opt = DefaultOpt
    /\ layers = <<>>
    /\ provider = "none"
    /\ origin = "none"
    /\ cache = EmptyStore
    /\ file_path = ""
    /\ dirty = FALSE
    /\ disk = [p \in Paths |-> IF p = "p1" THEN NoFile ELSE CorruptFile]
    /\ saved = [p \in Paths |-> EmptyStore]
    /\ scope = {"proofs"}
    /\ nwrites = 0
    /\ last = Last("init", "", 0, "", NoEffect("Ok"))
    /\ inserted = NoHistory

ParseNext == ParseProofType

ParseSpec == ParseInit /\ [][ParseNext]_vars

(* ------------------------- ProofRequestOpt::merge ----------------------- *)

\* The texts a u64 is read from.
IsU64(x) == x \in {"1", "2"}

\* serde_json::to_value(&self): an object with a member for every field, null
\* for None, and under prover_args an object with a member per backend.
to_value(self) == Obj(self)

\* crate::merge(a, b): where both are objects, member by member; else b takes
\* the place of a, unless b is null (absent), which leaves a.
RECURSIVE merge(_, _)
merge(a, b) ==
    IF a.t = "obj" /\ b.t = "obj"
    THEN Obj([k \in DOMAIN a.o \cup DOMAIN b.o |->
                IF k \notin DOMAIN b.o THEN a.o[k]
                ELSE merge(IF k \in DOMAIN a.o THEN a.o[k] ELSE Null, b.o[k])])
    ELSE IF b = Null THEN a
    ELSE b

\* serde_json::from_value::<ProofRequestOpt>: a member that is missing or null
\* is None, block_number must be a u64 and the other eight a string,
\* prover_args an object of which the four backends' members are kept as they
\* are; members of other names are ignored.
from_value(v) ==
    LET member(f) == IF f \in DOMAIN v.o THEN v.o[f] ELSE Null
        typed(f) ==
            \/ member(f) = Null
            \/ f = "block_number" /\ member(f).t = "num" /\ IsU64(member(f).s)
            \/ f # "block_number" /\ member(f).t = "str"
        args == member("prover_args")
    IN  IF /\ v.t = "obj"
           /\ \A f \in FieldNames : typed(f)
           /\ "prover_args" \in DOMAIN v.o => args.t = "obj"
        THEN [tag |-> "Ok",
              opt |-> [f \in FieldNames \cup {"prover_args"} |->
                         IF f = "prover_args"
                         THEN Obj([b \in BackendNames |->
                                     IF b \in DOMAIN args.o THEN args.o[b]
                                     ELSE Null])
                         ELSE member(f)]]
        ELSE [tag |-> "JsonErr", opt |-> DefaultOpt]

\* Variant of opt_merge for testing MergePrecedence: the overlay is
\* deserialized in place of the merged document.
opt_merge_replace(self, other) ==
    LET r == from_value(other) IN
    IF r.tag = "Ok" THEN r ELSE [tag |-> r.tag, opt |-> self]

\* ProofRequestOpt::merge(&mut self, other): to_value, merge, from_value?;
\* self is assigned only when from_value succeeded.
opt_merge(self, other) ==
    LET r == from_value(merge(to_value(self), other)) IN
    IF r.tag = "Ok" THEN r ELSE [tag |-> r.tag, opt |-> self]

\* The overlays merged: block_number absent, a number or a string; rpc
\* absent, a string or null; backend parameters absent, under prover_args
\* (a string, an object or null for sgx, a string for sp1), prover_args
\* itself a string, or sgx beside prover_args. An overlay with backend
\* parameters has at most a block number besides.
OverlayMembers ==
    {m \in [block_number : {Null, Num("1"), Num("2"), Str("1")},
            rpc : {Null, Str("a")},
            backends : {"none", "sgx str", "sgx k", "sgx j", "sgx null",
                        "sp1 str", "not an object", "beside"}] :
        m.backends # "none" =>
            (m.rpc = Null /\ m.block_number \in {Null, Num("2")})}

Params(x) == Obj([k \in {x} |-> Num(IF x = "k" THEN "1" ELSE "2")])

Overlay(m, rpc_null) ==
    LET top ==
            (IF m.block_number = Null THEN <<>>
             ELSE [f \in {"block_number"} |-> m.block_number])
            @@ (IF m.rpc # Null THEN [f \in {"rpc"} |-> m.rpc]
                ELSE IF rpc_null THEN [f \in {"rpc"} |-> Null]
                ELSE <<>>)
        args(v) == [f \in {"prover_args"} |-> v]
        sgx(v) == args(Obj([b \in {"sgx"} |-> v]))
    IN  Obj(top @@
            CASE m.backends = "none" -> <<>>
              [] m.backends = "sgx str" -> sgx(Str("u"))
              [] m.backends = "sgx k" -> sgx(Params("k"))
              [] m.backends = "sgx j" -> sgx(Params("j"))
              [] m.backends = "sgx null" -> sgx(Null)
              [] m.backends = "sp1 str" ->
                    args(Obj([b \in {"sp1"} |-> Str("u")]))
              [] m.backends = "not an object" -> args(Str("u"))
              [] m.backends = "beside" -> [b \in {"sgx"} |-> Params("k")])

Overlays ==
    {Overlay(m, FALSE) : m \in OverlayMembers}
    \cup {Overlay(m, TRUE) :
            m \in {n \in OverlayMembers : n.backends = "none" /\ n.rpc = Null}}

\* A layer is merged into the ProofRequestOpt.
Merge ==
    /\ Len(layers) < MaxLayers
    /\ \E other \in Overlays :
          LET r == opt_merge(opt, other) IN
          /\ opt' = r.opt
          /\ layers' = IF r.tag = "Ok" THEN Append(layers, other) ELSE layers
          /\ call' = [fn |-> "merge", arg |-> other, res |-> [tag |-> r.tag]]
    /\ UNCHANGED <<provider_vars, sgx_vars>>

\* Layers are merged into ProofRequestOpt::default().
MergeInit ==
    /\ SgxFresh
    /\ HostFresh
    /\ provider = "none"
    /\ origin = "none"
    /\ cache = EmptyStore
    /\ file_path = ""
    /\ dirty = FALSE
    /\ disk = [p \in Paths |-> IF p = "p1" THEN NoFile ELSE CorruptFile]
    /\ saved = [p \in Paths |-> EmptyStore]
    /\ scope = {"proofs"}
    /\ nwrites = 0
    /\ last = Last("init", "", 0, "", NoEffect("Ok"))
    /\ inserted = NoHistory

MergeNext == Merge

MergeSpec == MergeInit /\ [][MergeNext]_vars

(* -------------------- ProofRequest::try_from(ProofRequestOpt) ----------- *)

\* The characters of the texts given as proof_type.
Chars(x) ==
    CASE x = "sgx" -> <<"s", "g", "x">>
      [] x = "Native" -> <<"N", "a", "t", "i", "v", "e">>
      [] x = " sp1" -> <<" ", "s", "p", "1">>
      [] x = "bogus" -> <<"b", "o", "g", "u", "s">>

\* The texts given for the fields try_from parses; the first of each is
\* well formed. Network::from_str (raiko_lib) accepts the names of the known
\* networks, B256::from_str 32 bytes in hexadecimal, Address::from_str 20.
Texts(field) ==
    CASE field = "network" -> <<"taiko_a7", "bogus">>
      [] field = "graffiti" ->
            <<"0x0000000000000000000000000000000000000000000000000000000000000000",
              "0x00">>
      [] field = "prover" ->
            <<"0x0000000000000000000000000000000000000000", "prover">>
      [] field = "proof_type" -> <<"sgx", "Native", " sp1", "bogus">>
      [] OTHER -> <<"a">>

\* <String as FromStr>::parse for the type of the field: Network, B256,
\* Address or ProofType; the other fields are taken as they are.
parse(field, x) ==
    CASE field = "proof_type" -> from_str(Chars(x)).tag = "Ok"
      [] field \in {"network", "graffiti", "prover"} -> x = Texts(field)[1]
      [] OTHER -> TRUE

\* HostError::InvalidRequestConfig(..): the messages of try_from.
MissingMessage(field) ==
    CASE field = "block_number" -> "Missing block number"
      [] field = "rpc" -> "Missing rpc"
      [] field = "l1_rpc" -> "Missing l1_rpc"
      [] field = "beacon_rpc" -> "Missing beacon_rpc"
      [] field = "network" -> "Missing network"
      [] field = "l1_network" -> "Missing l1_network"
      [] field = "graffiti" -> "Missing graffiti"
      [] field = "prover" -> "Missing prover"
      [] field = "proof_type" -> "Missing proof_type"

InvalidMessage(field) ==
    CASE field = "network" -> "Invalid network"
      [] field = "graffiti" -> "Invalid graffiti"
      [] field = "prover" -> "Invalid prover"
      [] field = "proof_type" -> "Invalid proof_type"

InvalidRequestConfig(msg) ==
    [tag |-> "InvalidRequestConfig", msg |-> msg, prover_args |-> {}]

\* From<ProverSpecificOpts> for HashMap<String, Value>: the backends that
\* have a value.
prover_args_into(args) == {b \in BackendNames : args[b] # Null}

\* try_from, from its i-th field on: each field is read in turn, ok_or(..)?
\* and, for the four parsed ones, .parse().map_err(..)? before the next field
\* is looked at.
RECURSIVE try_from_at(_, _)
try_from_at(value, i) ==
    IF i > Len(RequiredFields)
    THEN [tag |-> "Ok", msg |-> "",
          prover_args |-> prover_args_into(value.prover_args.o)]
    ELSE LET field == RequiredFields[i] IN
         IF value[field] = Null
         THEN InvalidRequestConfig(MissingMessage(field))
         ELSE IF ~parse(field, value[field].s)
         THEN InvalidRequestConfig(InvalidMessage(field))
         ELSE try_from_at(value, i + 1)

\* impl TryFrom<ProofRequestOpt> for ProofRequest.
try_from(value) == try_from_at(value, 1)

\* The values a field of a ProofRequestOpt may hold.
FieldValues(field) ==
    {Null} \cup
    IF field = "block_number" THEN {Num("1")}
    ELSE {Str(Texts(field)[i]) : i \in DOMAIN Texts(field)}

\* Some backend parameters.
ProverArgs ==
    {NoProverArgs,
     [NoProverArgs EXCEPT !["sgx"] = Obj([instance_id |-> Num("1")])]}

\* The ProofRequestOpt values converted: every field absent or holding one
\* of its texts.
ProofRequestOpts ==
    [block_number : FieldValues("block_number"), rpc : FieldValues("rpc"),
     l1_rpc : FieldValues("l1_rpc"), beacon_rpc : FieldValues("beacon_rpc"),
     network : FieldValues("network"), l1_network : FieldValues("l1_network"),
     graffiti : FieldValues("graffiti"), prover : FieldValues("prover"),
     proof_type : FieldValues("proof_type"),
     prover_args : {Obj(a) : a \in ProverArgs}]

\* The ProofRequestOpt is converted.
TryFrom ==
    /\ call.fn = "none"
    /\ call' = [fn |-> "try_from", arg |-> opt, res |-> try_from(opt)]
    /\ UNCHANGED <<opt, layers>>
    /\ UNCHANGED <<provider_vars, sgx_vars>>

\* Some ProofRequestOpt is given to try_from.
ConvertInit ==
    /\ SgxFresh
    /\ call = NoCall
    /\ opt \in ProofRequestOpts
    /\ layers = <<>>
    /\ provider = "none"
    /\ origin = "none"
    /\ cache = EmptyStore
    /\ file_path = ""
    /\ dirty = FALSE
    /\ disk = [p \in Paths |-> IF p = "p1" THEN NoFile ELSE CorruptFile]
    /\ saved = [p \in Paths |-> EmptyStore]
    /\ scope = {"proofs"}
    /\ nwrites = 0
    /\ last = Last("init", "", 0, "", NoEffect("Ok"))
    /\ inserted = NoHistory

ConvertNext == TryFrom

ConvertSpec == ConvertInit /\ [][ConvertNext]_vars

(* ------------------------------ properties ------------------------------ *)

\* A value is stored for the query: an entry of the kind's mapping under that
\* key, or, for propose, the single record.
Stored(store, kind, query) ==
    IF kind = "propose" THEN store.propose # <<>>
    ELSE query \in DOMAIN store[kind]

\* Nothing is stored for any query of the kind.
KindEmpty(store, kind) == \A q \in Keys : ~Stored(store, kind, q)

\* The step is an operation `op` of one provider instance.
StepOf(op) == provider # "none" /\ provider' = provider /\ last'.op = op

\* The step leaves every mapping of the store but the entry of (kind, query)
\* as it was.
OnlyEntryChanged(kind, query) ==
    \A k \in Kinds :
        IF k = "propose" THEN k = kind \/ cache'.propose = cache.propose
        ELSE /\ DOMAIN cache'[k] \ {query} = DOMAIN cache[k] \ {query}
             /\ \A q \in DOMAIN cache[k] :
                    (k # kind \/ q # query) =>
                        q \in DOMAIN cache'[k] /\ cache'[k][q] = cache[k][q]

\* C1. Read-through exactly once: on a hybrid provider that began with an
\* empty cache, for every lookup operation and every key K, a successful
\* lookup of K that no successful lookup of K preceded makes exactly one
\* live-source call and one insert, and a later lookup of K makes none.
ReadThroughOnce ==
    [][(StepOf("get") /\ provider = "cached" /\ origin = "empty"
          /\ last'.tag = "Ok") =>
          IF last'.key \in DOMAIN inserted[last'.kind]
          THEN last'.rpc = 0 /\ last'.ins = 0
          ELSE last'.rpc = 1 /\ last'.ins = 1]_vars

\* C1, for a query for which the store holds nothing: a successful lookup
\* makes exactly one live-source call and one insert, which stores the
\* returned value for K and changes nothing else; a lookup of a key that an
\* earlier lookup of the instance filled makes no live-source call and no
\* insert and returns the value that was filled.
ReadThroughOnceUnstored ==
    [][(StepOf("get") /\ provider = "cached" /\ last'.tag = "Ok") =>
          LET k == last'.kind
              q == last'.key
          IN  /\ ~Stored(cache, k, q) =>
                    /\ last'.rpc = 1
                    /\ last'.ins = 1
                    /\ ~last'.hit
                    /\ Stored(cache', k, q)
                    /\ FileGet(cache', k, q).out = last'.out
                    /\ OnlyEntryChanged(k, q)
                    /\ q \in DOMAIN inserted'[k]
                    /\ inserted'[k][q] = last'.out[1]
              /\ q \in DOMAIN inserted[k] =>
                    /\ last'.rpc = 0
                    /\ last'.ins = 0
                    /\ last'.out = <<inserted[k][q]>>
                    /\ cache' = cache]_vars

\* C2. Exact-key lookup, on an instance that began with an empty store: a
\* lookup with key K hits only if a value was inserted under exactly K, and
\* returns the value last inserted under K.
ExactKeyLookup ==
    (provider # "none" /\ origin = "empty" /\ last.op = "get" /\ last.hit) =>
        /\ last.key \in DOMAIN inserted[last.kind]
        /\ last.out = <<inserted[last.kind][last.key]>>

\* C3. Visibility and stability, within one provider instance: in every step
\* a stored value stays stored (nothing is evicted or removed), and on a
\* hybrid provider it stays the same value; every key inserted in the
\* instance is stored; and a lookup of a stored key is a hit that returns
\* what is stored for it.
VisibleAndStable ==
    /\ [](provider # "none" =>
            \A k \in Kinds : \A q \in DOMAIN inserted[k] : Stored(cache, k, q))
    /\ [][(provider # "none" /\ provider' = provider) =>
            /\ \A k \in Kinds, q \in Keys :
                  Stored(cache, k, q) =>
                     /\ Stored(cache', k, q)
                     /\ provider = "cached" =>
                           FileGet(cache', k, q) = FileGet(cache, k, q)
            /\ (last'.op = "get" /\ Stored(cache, last'.kind, last'.key)) =>
                  /\ last'.hit
                  /\ last'.tag = "Ok"
                  /\ last'.out = FileGet(cache, last'.kind, last'.key).out
                  /\ last'.out = FileGet(cache', last'.kind, last'.key).out]_vars

\* C3 witness: a lookup hits a key inserted earlier in the instance, after an
\* insert of another key of the same kind.
VisibleAndStableWitness ==
    /\ provider # "none"
    /\ last.op = "get"
    /\ last.hit
    /\ last.kind # "propose"
    /\ last.key \in DOMAIN inserted[last.kind]
    /\ DOMAIN inserted[last.kind] # {last.key}

\* C4. A hit has no side effect: a lookup of the hybrid provider that finds
\* its answer stored makes no live-source call and no insert, and leaves the
\* store, the dirty flag and the files as they were.
HitNoSideEffect ==
    [][(/\ provider = "cached"
        /\ provider' = provider
        /\ \/ last'.op = "get" /\ Stored(cache, last'.kind, last'.key)
           \/ last'.op = "batch" /\ ~KindEmpty(cache, "partial_blocks")) =>
          /\ last'.hit
          /\ last'.rpc = 0
          /\ last'.ins = 0
          /\ cache' = cache
          /\ dirty' = dirty
          /\ disk' = disk
          /\ file_path' = file_path]_vars

\* C4 witness: a hit on a hybrid provider whose store is clean (loaded).
HitNoSideEffectWitness ==
    /\ provider = "cached"
    /\ last.op = "get"
    /\ last.hit
    /\ ~dirty

\* C5. A miss of the file-only provider is an error: a lookup of a query for
\* which nothing is stored returns the no-data error, makes no live-source
\* call and no insert, and leaves the store, the dirty flag and the files as
\* they were.
FileOnlyMissFails ==
    [][(/\ provider = "file"
        /\ provider' = provider
        /\ last'.op = "get"
        /\ ~Stored(cache, last'.kind, last'.key)) =>
          /\ last'.tag = "NoData"
          /\ last'.out = <<>>
          /\ ~last'.hit
          /\ last'.rpc = 0
          /\ last'.ins = 0
          /\ cache' = cache
          /\ dirty' = dirty
          /\ disk' = disk]_vars

\* C5 witness: a miss of a file-only provider that holds other entries.
FileOnlyMissFailsWitness ==
    /\ provider = "file"
    /\ last.op = "get"
    /\ last.tag = "NoData"
    /\ cache # EmptyStore
    /\ dirty

\* C6. Dirty-flag lifecycle: after an insert the flag is set, and after a
\* successful save it is clear.
DirtyLifecycle ==
    /\ (provider # "none" /\ last.ins > 0) => dirty
    /\ (provider # "none" /\ last.op = "save" /\ last.tag = "Ok") => ~dirty

\* C6, the part about inserts alone: after an operation that inserted, the
\* flag is set.
DirtySetByInsert == (provider # "none" /\ last.ins > 0) => dirty

\* C7. Clean save is a no-op: save calls File::create if and only if the
\* dirty flag is set; a clean save succeeds and leaves every file as it was,
\* a successful dirty save leaves a cache document at the provider's path;
\* and a provider is clean when it has just been loaded or created empty,
\* and for as long as it has received no insert.
CleanSaveNoOp ==
    /\ [](last.op \in {"new_cached", "new_file", "empty"} => ~dirty)
    /\ []((provider # "none" /\ inserted = NoHistory) => ~dirty)
    /\ [][StepOf("save") =>
            /\ last'.create <=> dirty
            /\ ~dirty => disk' = disk /\ last'.tag = "Ok"
            /\ (dirty /\ last'.tag = "Ok") => disk'[file_path].st = "doc"]_vars

\* C7 witness: save on a freshly loaded store, which writes nothing.
CleanSaveNoOpWitness ==
    /\ provider # "none"
    /\ origin = "loaded"
    /\ inserted = NoHistory
    /\ last.op = "save"
    /\ ~last.create

\* C8. Save preserves the in-memory store: whatever its result, save leaves
\* every mapping, the path and the flag of the provider as they were, so
\* every lookup answers the same before and after.
SavePreservesStore ==
    [][StepOf("save") =>
          /\ cache' = cache
          /\ file_path' = file_path
          /\ \A k \in Kinds, q \in Keys :
                FileGet(cache', k, q) = FileGet(cache, k, q)
          /\ batch_get_partial_blocks(cache', 1) =
                batch_get_partial_blocks(cache, 1)]_vars

\* C8 witness: a save that wrote a store holding entries.
SavePreservesStoreWitness ==
    /\ provider # "none"
    /\ last.op = "save"
    /\ last.create
    /\ last.tag = "Ok"
    /\ cache # EmptyStore

\* The answers of two stores agree on every query of every kind.
SameAnswers(a, b) ==
    \A k \in Kinds, q \in Keys :
        /\ Stored(a, k, q) <=> Stored(b, k, q)
        /\ FileGet(a, k, q) = FileGet(b, k, q)

\* C9. Round trip: the file a successful save wrote is read back by
\* read_from_file as a clean store that answers every query as the saved
\* store does; and a provider loaded from a path answers every query as the
\* store last saved to that path did, with the dirty flag false.
RoundTrip ==
    /\ [][(StepOf("save") /\ last'.create /\ last'.tag = "Ok") =>
            LET r == read_from_file(disk'[file_path], file_path) IN
            /\ r.tag = "Ok"
            /\ ~r.dirty
            /\ SameAnswers(r.store, cache)]_vars
    /\ [][(last'.op \in {"new_file", "new_cached"} /\ provider = "none"
             /\ disk[last'.path].st = "doc" /\ provider' # "none") =>
            /\ origin' = "loaded"
            /\ ~dirty'
            /\ SameAnswers(cache', saved[last'.path])]_vars

\* C9 witness: a provider loaded from a saved file, which held two entries of
\* one mapping and a propose record, answers a lookup of a key inserted before
\* the save.
RoundTripWitness ==
    /\ provider # "none"
    /\ origin = "loaded"
    /\ last.op = "get"
    /\ last.hit
    /\ last.kind \in HashKinds
    /\ Cardinality(DOMAIN cache[last.kind]) = 2
    /\ cache.propose # <<>>
    /\ Stored(saved[file_path], last.kind, last.key)

\* C10. Hybrid load fallback: CachedRpcProvider::new over a path with no file
\* or an unreadable file never returns the read error; when it succeeds the
\* provider's store is empty and clean and its path is the given one; the
\* path of an instance never changes, and a save touches the file at that
\* path only, which a successful writing save replaces by a cache document.
CachedNewFallback ==
    /\ [][(last'.op = "new_cached" /\ provider = "none"
             /\ disk[last'.path].st # "doc") =>
            /\ last'.tag \in {"Ok", "RpcErr"}
            /\ last'.tag = "Ok" =>
                  /\ provider' = "cached"
                  /\ origin' = "empty"
                  /\ cache' = EmptyStore
                  /\ ~dirty'
                  /\ file_path' = last'.path]_vars
    /\ [][(provider # "none" /\ provider' # "none") =>
            /\ file_path' = file_path
            /\ \A p \in Paths : p # file_path => disk'[p] = disk[p]
            /\ (last'.op = "save" /\ last'.create /\ last'.tag = "Ok") =>
                  disk'[file_path].st = "doc"]_vars

\* C10 witness: a hybrid provider built over the unreadable file filled its
\* cache by a miss and its save wrote a document at that path.
CachedNewFallbackWitness ==
    /\ provider = "cached"
    /\ origin = "empty"
    /\ file_path = "p2"
    /\ last.op = "save"
    /\ last.tag = "Ok"
    /\ disk["p2"].st = "doc"
    /\ cache # EmptyStore

\* C11. File-only load fallback: after new_file_provider over a path that
\* holds no file or an unreadable file, construction has succeeded and the
\* provider holds an empty store.
FileNewFallback ==
    (last.op = "new_file" /\ disk[last.path].st # "doc") =>
        /\ last.tag = "Ok"
        /\ provider = "file"
        /\ cache = EmptyStore

\* C12. batch_get_partial_blocks cache-hit rule: whenever the store holds at
\* least one partial block, the batch lookup of either provider, for any
\* query, returns every cached partial block in ascending order of the block
\* number it is stored under, makes no live-source call and no insert and
\* leaves the store as it was; blocks filled by the hybrid provider are in
\* ascending order of their own numbers; on a file-only provider with no
\* partial block it fails.
BatchHitRule ==
    [][StepOf("batch") =>
          LET pb == cache.partial_blocks
              keys == SortedKeys(DOMAIN pb)
          IN  IF DOMAIN pb # {}
              THEN /\ last'.tag = "Ok"
                   /\ last'.hit
                   /\ last'.rpc = 0
                   /\ last'.ins = 0
                   /\ Len(last'.out) = Cardinality(DOMAIN pb)
                   /\ \A i \in 1..Len(last'.out) : last'.out[i] = pb[keys[i]]
                   /\ \A i, j \in 1..Len(keys) : i < j => keys[i] < keys[j]
                   /\ (provider = "cached" /\ origin = "empty") =>
                         \A i, j \in 1..Len(last'.out) :
                             i < j => last'.out[i].of < last'.out[j].of
                   /\ cache' = cache
                   /\ dirty' = dirty
              ELSE provider = "file" =>
                      /\ last'.tag = "NoData"
                      /\ last'.out = <<>>
                      /\ last'.rpc = 0
                      /\ cache' = cache]_vars

\* C12 witness: a batch lookup is answered from the cache for a query whose
\* own block is not cached.
BatchHitRuleWitness ==
    /\ provider # "none"
    /\ last.op = "batch"
    /\ last.hit
    /\ last.key \notin DOMAIN cache.partial_blocks

\* C13. Live-source failure on a hybrid miss: a lookup of the hybrid provider
\* that finds nothing stored and whose live-source call fails returns the
\* live source's error, after exactly one live-source call and no insert,
\* and leaves the store, the dirty flag and the files as they were; a lookup
\* fails in no other way.
LiveFailureSurfaced ==
    [][(/\ provider = "cached"
        /\ provider' = provider
        /\ last'.op \in {"get", "batch"}
        /\ last'.tag # "Ok" \/ (last'.rpc = 1 /\ last'.ins = 0
                                   /\ last'.op = "get")) =>
          /\ last'.tag = "RpcErr"
          /\ IF last'.op = "get" THEN ~Stored(cache, last'.kind, last'.key)
             ELSE KindEmpty(cache, "partial_blocks")
          /\ last'.out = <<>>
          /\ ~last'.hit
          /\ last'.rpc = 1
          /\ last'.ins = 0
          /\ cache' = cache
          /\ dirty' = dirty
          /\ disk' = disk
          /\ inserted' = inserted]_vars

\* C13 witness: a lookup failed at the live source on a provider whose store
\* holds entries not yet saved.
LiveFailureSurfacedWitness ==
    /\ provider = "cached"
    /\ last.op = "get"
    /\ last.tag = "RpcErr"
    /\ dirty
    /\ cache # EmptyStore

\* C14. Bootstrap idempotence: a run of sgx_setup that found the completion
\* marker when it started never invokes bootstrap and never calls the
\* registry, whatever check_bootstrap returns and with or without
\* registration parameters.
BootstrapIdempotence ==
    run.premarker => (run.boots = 0 /\ run.regs = 0)

\* C15. Registration exactly once: once a registration call has succeeded,
\* no run issues another registration call.
RegistrationOnce ==
    [][run'.regs > run.regs => chain = {}]_vars

\* C16. Marker meaning: between runs of sgx_setup, if the marker exists then
\* the secret on disk is the key of a bootstrap whose quote was registered
\* and whose instance id is the one in the config file.
MarkerMeaning ==
    (pc = "idle" /\ marker) =>
        /\ secret \in chain
        /\ config.instance_id = secret

\* C17. Failure leaves no marker: after a run of sgx_setup that returned an
\* error no completion marker exists.
FailureLeavesNoMarker ==
    (pc = "idle" /\ result = "Err") => ~marker

\* C18. Registration is optional: a run of sgx_setup without registration
\* parameters calls the registry never, opens and writes the config file
\* never and creates the marker never; none of its steps changes what is
\* registered or the config file, or makes the marker exist.
RegistrationOptional ==
    /\ [](~run.reg =>
            /\ run.regs = 0
            /\ run.cfg_reads = 0
            /\ run.cfg_writes = 0
            /\ run.marks = 0)
    /\ [][(pc # "idle" /\ pc' # pc /\ ~run.reg) =>
            /\ chain' = chain
            /\ config' = config
            /\ marker' => marker]_vars

\* C18 witness: a run without registration parameters bootstrapped and
\* returned Ok on a machine where an earlier run had registered.
RegistrationOptionalWitness ==
    /\ pc = "idle"
    /\ result = "Ok"
    /\ ~run.reg
    /\ run.boots = 1
    /\ run.premarker
    /\ chain # {}

BackendUnavailable ==
    got.tag # "none" =>
        /\ (got.proof_type \in Backends /\ got.proof_type \notin features) =>
              got.tag = "FeatureNotSupported"
        /\ got.tag = "Ok" => got.backend = got.proof_type
        /\ got.proof_type = "native" => got.tag = "Ok"

\* C20 witness: a proof type whose backend is missing is refused in a build
\* that has another backend.
BackendUnavailableWitness ==
    /\ got.tag = "FeatureNotSupported"
    /\ got.proof_type \notin features
    /\ features # {}

\* C24: in every run of sgx_setup the completion marker is created only
\* after, in that same run and in this order, bootstrap succeeded, the
\* registration call succeeded and the config file was rewritten with the
\* instance id: the marker never appears without a successful bootstrap.
MarkerAfterAllSteps ==
    [][(marker' /\ ~marker) =>
          /\ pc = "create_marker"
          /\ run.log = <<"bootstrap", "register", "config">>
          /\ run.boots = 1 /\ run.regs = 1 /\ run.cfg_writes = 1
          /\ secret # 0 /\ run.quote = secret
          /\ run.quote \in chain /\ run.id = run.quote
          /\ config.readable /\ config.instance_id = run.id]_vars

MarkerAfterAllStepsWitness ==
    /\ pc = "idle" /\ result = "Ok" /\ marker
    /\ run.log = <<"bootstrap", "register", "config", "marker">>

\* C25: after a run of sgx_setup with registration parameters that returned
\* Ok having performed a registration, the config document's sgx.instance_id
\* is the identifier that registration call returned, the rest of the config
\* document is what it was when the run started, and the marker exists.
InstanceIdPersisted ==
    (pc = "idle" /\ result = "Ok" /\ run.reg /\ run.regs > 0) =>
        /\ config.readable
        /\ run.id # 0 /\ config.instance_id = run.id
        /\ config.other = run.other0
        /\ marker

InstanceIdPersistedWitness ==
    /\ pc = "idle" /\ result = "Ok" /\ run.reg /\ run.regs = 1
    /\ run.other0 = "y" /\ config.instance_id = 2

\* C26: sgx_setup invokes bootstrap if and only if check_bootstrap failed, or
\* registration parameters are given and the marker is absent; otherwise it
\* returns Ok and leaves the secret, the config and the marker as they were.
\* A loadable secret without marker, registration asked for, is therefore
\* followed by a fresh bootstrap.
BootstrapDecisionRule ==
    [][/\ (pc = "check" /\ pc' # "check" /\ result' # "Crash") =>
              IF run'.chk = "Err" \/ (run.reg /\ ~marker)
              THEN pc' = "bootstrap"
              ELSE /\ pc' = "idle" /\ result' = "Ok"
                   /\ run'.boots = 0
                   /\ UNCHANGED <<secret, config, marker>>
       /\ (pc = "bootstrap" /\ pc' # "bootstrap" /\ result' # "Crash") =>
              /\ run'.boots = 1
              /\ (secret' # secret \/ result' = "Err")
       /\ (run'.boots > 0 \/ secret' # secret) =>
              /\ pc \in {"bootstrap", "remove", "register", "read_config",
                         "write_config", "create_marker"} \/ run' = run
              /\ (run'.chk = "Err" \/ (run'.reg /\ ~run'.premarker))]_vars

BootstrapDecisionRuleWitness ==
    /\ run.chk = "Ok" /\ run.reg /\ ~run.premarker
    /\ run.boots = 1 /\ run.quote = 2 /\ secret = 2

BackFillStep ==
    (StepOf("batch") /\ provider = "cached"
        /\ DOMAIN cache.partial_blocks = {}) =>
        /\ last'.rpc = 1
        /\ ~last'.hit
        /\ last'.tag = "Ok" =>
              /\ last'.ins = Len(last'.out)
              /\ DOMAIN cache'.partial_blocks =
                    {last'.out[i].of : i \in DOMAIN last'.out}
              /\ \A i \in DOMAIN last'.out :
                    cache'.partial_blocks[last'.out[i].of] = last'.out[i]
              /\ last'.out # <<>> => dirty'

\* get_partial_block for a number this instance inserted a block under hits
\* the cache, with no live-source call, and returns that block.
BackFilledGetHits ==
    (StepOf("get") /\ provider = "cached" /\ last'.kind = "partial_blocks"
        /\ last'.key \in DOMAIN inserted.partial_blocks) =>
        /\ last'.tag = "Ok"
        /\ last'.hit
        /\ last'.rpc = 0
        /\ last'.out = <<inserted.partial_blocks[last'.key]>>

\* The batch lookup is served from the cache.
BatchServedFromCache ==
    last'.tag = "Ok" /\ last'.hit /\ last'.rpc = 0

ProviderSelection ==
    [][/\ (provider = "none" /\ call'.fn = "new_provider") =>
            LET given == call'.arg IN
            /\ (given.cache_path # NoPath /\ given.rpc_url) =>
                  \/ provider' = "cached" /\ file_path' = given.cache_path
                  \/ provider' = "none" /\ call'.res.tag = "RpcErr"
            /\ (given.cache_path # NoPath /\ ~given.rpc_url) =>
                  \/ provider' = "file" /\ file_path' = given.cache_path
                  \/ provider' = "none" /\ call'.res.tag = "ReadErr"
            /\ (given.cache_path = NoPath /\ given.rpc_url) =>
                  \/ provider' = "rpc" /\ file_path' = NoPath
                  \/ provider' = "none" /\ call'.res.tag = "RpcErr"
            /\ (given.cache_path = NoPath /\ ~given.rpc_url) =>
                  provider' = "none" /\ call'.res.tag = "NoSource"
            /\ provider' # "none" <=> call'.res.tag = "Ok"
       /\ provider = "rpc" =>
            /\ cache = EmptyStore /\ cache' = cache
            /\ disk' = disk
            /\ ~dirty'
            /\ last'.op = "get" => (last'.rpc = 1 /\ ~last'.hit)]_vars

ProviderSelectionWitness ==
    /\ provider = "rpc" /\ last.op = "get" /\ last.tag = "Ok"
    /\ call.arg = [cache_path |-> NoPath, rpc_url |-> TRUE]
    /\ \E p \in Paths : disk[p].st = "doc"

\* Two strings are equal ignoring the case of their letters.
EqIgnoreCase(a, b) ==
    /\ Len(a) = Len(b)
    /\ \A i \in DOMAIN a :
          a[i] = b[i] \/ ToUpperChar(a[i]) = b[i] \/ a[i] = ToUpperChar(b[i])

\* The string is the name between two runs of whitespace, ignoring case.
EqTrimmed(s, name) ==
    \E i, j \in 0..Len(s) :
       /\ i <= j
       /\ \A k \in 1..i : s[k] \in Whitespace
       /\ \A k \in (j + 1)..Len(s) : s[k] \in Whitespace
       /\ EqIgnoreCase(SubSeq(s, i + 1, j), name)

\* C21 as stated: a string parses to a proof type if and only if it equals,
\* ignoring case, one of the names Display produces, and then to that type;
\* every other string, a name with surrounding whitespace included, fails
\* with the invalid-proof-type error.
ProofTypeParsingExact ==
    call.fn = "from_str" =>
        /\ \A t \in ProofTypes :
              EqIgnoreCase(call.arg, Display(t)) => call.res = Parsed(t)
        /\ (\A t \in ProofTypes : ~EqIgnoreCase(call.arg, Display(t))) =>
              call.res = InvalidProofType(call.arg)

\* C21, amended: a string parses to a proof type if and only if, once its
\* leading and trailing whitespace is removed, it equals one of the names
\* Display produces, ignoring case, and then to that type; every other string
\* fails with the invalid-proof-type error carrying the string as given.
ProofTypeParsing ==
    call.fn = "from_str" =>
        /\ \A t \in ProofTypes :
              EqTrimmed(call.arg, Display(t)) => call.res = Parsed(t)
        /\ (\A t \in ProofTypes : ~EqTrimmed(call.arg, Display(t))) =>
              call.res = InvalidProofType(call.arg)

ProofTypeParsingWitness ==
    /\ call.fn = "from_str"
    /\ call.arg = <<" ", "S", "G", "X", "\n">>
    /\ call.res = Parsed("sgx")


\* The required fields that are absent, by their place in the order.
MissingFields(value) ==
    {i \in DOMAIN RequiredFields : value[RequiredFields[i]] = Null}

\* The message names the field: it is "Missing" followed by the field's name,
\* written with underscores or with spaces.
NamesMissing(msg, field) ==
    \/ msg = "Missing " \o field
    \/ field = "block_number" /\ msg = "Missing block number"

\* C23: the conversion succeeds only if the nine required fields are there;
\* whenever one is absent it fails with the error naming the first absent
\* field, whatever the other fields hold.
MissingFieldError ==
    call.fn = "try_from" =>
        LET missing == MissingFields(call.arg) IN
        /\ call.res.tag = "Ok" => missing = {}
        /\ missing # {} =>
              /\ call.res.tag = "InvalidRequestConfig"
              /\ \A i \in missing :
                    (\A j \in missing : i <= j) =>
                        NamesMissing(call.res.msg, RequiredFields[i])

\* The part of C23 that holds: a conversion that fails names the first field,
\* in the order of the fields, that is absent or does not parse.
FirstOffendingField ==
    call.fn = "try_from" =>
        LET bad == {i \in DOMAIN RequiredFields :
                       \/ call.arg[RequiredFields[i]] = Null
                       \/ ~parse(RequiredFields[i],
                                 call.arg[RequiredFields[i]].s)}
        IN  /\ call.res.tag = "Ok" <=> bad = {}
            /\ \A i \in bad :
                  (\A j \in bad : i <= j) =>
                      IF call.arg[RequiredFields[i]] = Null
                      THEN NamesMissing(call.res.msg, RequiredFields[i])
                      ELSE call.res.msg = InvalidMessage(RequiredFields[i])

\* The member of a JSON object, null when it has none of that name.
Member(v, k) == IF v.t = "obj" /\ k \in DOMAIN v.o THEN v.o[k] ELSE Null

\* The parameters of a backend in a ProofRequestOpt or an overlay.
BackendEntry(v, b) == Member(Member(v, "prover_args"), b)

\* The last of the layers that supplies the top-level field, 0 if none does.
LastSupplying(f) ==
    LET S == {i \in DOMAIN layers : Member(layers[i], f) # Null} IN
    IF S = {} THEN 0 ELSE CHOOSE i \in S : \A j \in S : j <= i

\* C22: after a merge that succeeded, every field the overlay supplies has
\* the overlay's value and every field it does not supply (absent or null)
\* has its previous value; so for the parameters of each backend under
\* prover_args, member by member where both are objects; after a sequence of
\* layers each field has the value of the last layer that supplies it. A
\* merge that fails leaves the ProofRequestOpt as it was.
MergePrecedence ==
    /\ [][call'.fn = "merge" /\ call'.res.tag = "Ok" /\ layers' # layers =>
            LET other == call'.arg IN
            /\ \A f \in FieldNames :
                  opt'[f] = IF Member(other, f) # Null THEN Member(other, f)
                            ELSE opt[f]
            /\ \A b \in BackendNames :
                  LET old == BackendEntry(Obj(opt), b)
                      new == BackendEntry(other, b)
                      now == BackendEntry(Obj(opt'), b)
                  IN  IF new = Null THEN now = old
                      ELSE IF new.t # "obj" \/ old.t # "obj" THEN now = new
                      ELSE \A k \in DOMAIN old.o \cup DOMAIN new.o :
                              Member(now, k) =
                                 IF Member(new, k) # Null THEN Member(new, k)
                                 ELSE Member(old, k)]_vars
    /\ [][call'.fn = "merge" /\ call'.res.tag # "Ok" /\ layers' = layers =>
            opt' = opt]_vars
    /\ [](\A f \in FieldNames :
            opt[f] = IF LastSupplying(f) = 0 THEN Null
                     ELSE Member(layers[LastSupplying(f)], f))

MergePrecedenceWitness ==
    /\ Len(layers) = 2
    /\ opt.block_number = Num("2")
    /\ Member(layers[1], "block_number") = Null
    /\ BackendEntry(Obj(opt), "sgx") = Obj([j |-> Num("2"), k |-> Num("1")])

====
